---------------------------- MODULE Spec2Model ----------------------------
(* Zoom breakout-room tracker (src/app.py): the in-memory MeetingState, the *)
(* webhook handlers and the calibration endpoints, as one state machine.    *)
(*                                                                          *)
(* Representation.  Text that the code takes apart (room identifiers, room  *)
(* names, participant names, e-mails) is a sequence of one-character        *)
(* strings, so that replace/lower/slice/strip/in are computed, not assumed. *)
(* Python's None and '' are both the empty text << >> wherever the code     *)
(* only tests truthiness.  Opaque ids (meeting id/uuid, participant id) are *)
(* strings, "" meaning None or ''.  An optional number or date is << >>     *)
(* (None) or <<v>>.  Event times are milliseconds from an arbitrary origin. *)
EXTENDS Integers, Sequences, FiniteSets, TLC

VARIABLES
    meeting_state,   \* the global MeetingState object (src/app.py:359)
    today,           \* datetime.utcnow() date, as a day number
    bq_mappings,     \* rows of the room_mappings table, oldest first
    qos_threads,     \* background collections started, as <<uuid, id>>
    out,             \* the last request: what it was and what it produced
    steps,           \* requests handled so far
    zoom_api,        \* the global ZoomAPI object (src/app.py:840): its token cache
    qos_tasks,       \* the collection threads that woke up: where each one is
    bq_qos,          \* what the collection threads inserted, oldest first
    room_mapper,     \* the global AutoRoomMapper object (src/zoom_webhook_bigquery.py:580)
    fetch,           \* one call of zoom_api.get_past_meeting_participants: where it is
    joins,           \* room-join handlers of the calibration actor that are under way
    auto_start       \* the auto_start_mapping threads started, and where each one is

vars == <<meeting_state, today, bq_mappings, qos_threads, out, steps,
          zoom_api, qos_tasks, bq_qos, room_mapper, fetch, joins, auto_start>>

-----------------------------------------------------------------------------
(* Text helpers: the str methods the code uses.                             *)

None == << >>

Some(v) == <<v>>

LowerTable ==
    [c \in {"A","B","C","D","E","F","G","H","I","J","K","L","M",
            "N","O","P","Q","R","S","T","U","V","W","X","Y","Z"} |->
        CASE c = "A" -> "a" [] c = "B" -> "b" [] c = "C" -> "c" [] c = "D" -> "d"
          [] c = "E" -> "e" [] c = "F" -> "f" [] c = "G" -> "g" [] c = "H" -> "h"
          [] c = "I" -> "i" [] c = "J" -> "j" [] c = "K" -> "k" [] c = "L" -> "l"
          [] c = "M" -> "m" [] c = "N" -> "n" [] c = "O" -> "o" [] c = "P" -> "p"
          [] c = "Q" -> "q" [] c = "R" -> "r" [] c = "S" -> "s" [] c = "T" -> "t"
          [] c = "U" -> "u" [] c = "V" -> "v" [] c = "W" -> "w" [] c = "X" -> "x"
          [] c = "Y" -> "y" [] c = "Z" -> "z"]

\* str.lower()
Lower(s) ==
    [i \in 1..Len(s) |-> IF s[i] \in DOMAIN LowerTable THEN LowerTable[s[i]] ELSE s[i]]

IsBrace(c) == c \in {"{", "}"}

NotBrace(c) == ~IsBrace(c)

\* room_uuid.replace('{', '').replace('}', '')
StripBraces(s) == SelectSeq(s, NotBrace)

ShortKeyLen == 8

\* s[:n]
Prefix(s, n) == IF Len(s) >= n THEN SubSeq(s, 1, n) ELSE s

Whitespace == {" "}

RECURSIVE LStrip(_)
LStrip(s) == IF s # << >> /\ Head(s) \in Whitespace THEN LStrip(Tail(s)) ELSE s

RECURSIVE RStrip(_)
RStrip(s) ==
    IF s # << >> /\ s[Len(s)] \in Whitespace THEN RStrip(SubSeq(s, 1, Len(s) - 1)) ELSE s

\* str.strip()
Strip(s) == RStrip(LStrip(s))

\* sub in s
Contains(sub, s) ==
    \E i \in 0..(Len(s) - Len(sub)) : SubSeq(s, i + 1, i + Len(sub)) = sub

\* s.split()[0] of a stripped, non-empty s
FirstToken(s) ==
    LET spaces == {i \in 1..Len(s) : s[i] \in Whitespace}
    IN IF spaces = {} THEN s
       ELSE SubSeq(s, 1, (CHOOSE i \in spaces : \A j \in spaces : i <= j) - 1)

-----------------------------------------------------------------------------
(* Configuration (environment of the process).                              *)

\* SCOUT_BOT_NAME, default 'Scout Bot'
SCOUT_BOT_NAME == <<"S","c","o","u","t"," ","B","o","t">>

\* SCOUT_BOT_EMAIL of a deployment that configures it
SCOUT_BOT_EMAIL == <<"b","o","t","@","x">>

-----------------------------------------------------------------------------
(* Input domains.                                                           *)

\* session-layer and SDK room identifiers seen in requests
U_abc == <<"{","a","b","c","-","1","2","3","}">>

U_abc_bare == <<"a","b","c","-","1","2","3">>

U_ABC == <<"{","A","B","C","-","1","2","3","}">>

U_long == <<"a","b","c","-","1","2","3","4","5">>

U_api == <<"a","p","i","-","i","d","-","1">>

RoomUuids == {U_abc, U_abc_bare, U_ABC, U_long, U_api}

RoomA == <<"R","o","o","m"," ","A">>

RoomB == <<"R","o","o","m"," ","B">>

RoomC == <<"R","o","o","m"," ","C">>

RoomNames == {RoomA, RoomB, RoomC}

MainRoom == <<"M","a","i","n"," ","R","o","o","m">>

UnknownRoom == <<"U","n","k","n","o","w","n"," ","R","o","o","m">>

RoomDash == <<"R","o","o","m","-">>

Jane == [participant_id |-> "p-jane",
         participant_name |-> <<"J","a","n","e">>,
         participant_email |-> <<"j","@","x">>]

Bot == [participant_id |-> "p-bot",
        participant_name |-> SCOUT_BOT_NAME,
        participant_email |-> << >>]

\* attributed by the name substring rule only (case differs, text around it)
BotBySubstring == [participant_id |-> "p-bot2",
                   participant_name |-> <<"H","R"," ","s","c","o","u","t"," ","b","o","t","2">>,
                   participant_email |-> << >>]

\* attributed by the e-mail rule only (case differs)
BotByEmail == [participant_id |-> "p-hr",
               participant_name |-> <<"H","R">>,
               participant_email |-> <<"B","o","t","@","X">>]

Participants == {Jane, Bot, BotBySubstring, BotByEmail}

MeetingIds == {"M1", "M2"}

MeetingUuids == {"u1", "u2"}

\* event_dt values, in milliseconds
Times == {0, 1500, 86401500, 90000000}

MaxSteps == 3

MaxDay == 2

-----------------------------------------------------------------------------
(* class MeetingState.  Each method is an operator from the object (and the *)
(* arguments) to the object after the call.                                 *)

EmptyMap == [k \in {} |-> None]

\* d[k] = v
Put(d, k, v) == [x \in (DOMAIN d) \cup {k} |-> IF x = k THEN v ELSE d[x]]

\* MeetingState.reset: every field but previous_meeting_uuid / previous_meeting_id
reset(ms) ==
    [meeting_id |-> "",
     meeting_uuid |-> "",
     meeting_date |-> None,
     uuid_to_name |-> EmptyMap,
     name_to_uuid |-> EmptyMap,
     calibration_complete |-> FALSE,
     calibrated_at |-> None,
     participant_states |-> EmptyMap,
     scout_bot_current_room |-> None,
     pending_room_moves |-> << >>,
     calibration_in_progress |-> FALSE,
     calibration_mode |-> "scout_bot",
     calibration_participant_name |-> None,
     calibration_participant_uuid |-> None,
     previous_meeting_uuid |-> ms.previous_meeting_uuid,
     previous_meeting_id |-> ms.previous_meeting_id]

\* MeetingState.__init__
NewMeetingState == reset([previous_meeting_uuid |-> "", previous_meeting_id |-> ""])

\* set_meeting: "if self.meeting_id != meeting_id or self.meeting_date != today"
IsNewMeeting(ms, meeting_id, date) ==
    ms.meeting_id # meeting_id \/ ms.meeting_date # Some(date)

\* set_meeting: "if old_uuid and old_uuid != meeting_uuid", inside the transition
TriggersQos(ms, meeting_id, meeting_uuid, date) ==
    /\ IsNewMeeting(ms, meeting_id, date)
    /\ ms.meeting_uuid # ""
    /\ ms.meeting_uuid # meeting_uuid

\* set_meeting with the reset forgotten: the new id is recorded over the old state
set_meeting_without_reset(ms, meeting_id, meeting_uuid, date) ==
    [ms EXCEPT !.meeting_id = meeting_id,
               !.meeting_uuid = IF IsNewMeeting(ms, meeting_id, date) \/ ms.meeting_uuid = ""
                                THEN meeting_uuid ELSE ms.meeting_uuid,
               !.meeting_date = Some(date)]

\* set_meeting that also treats a different uuid as a new meeting
set_meeting_on_uuid_change(ms, meeting_id, meeting_uuid, date) ==
    IF IsNewMeeting(ms, meeting_id, date) \/ ms.meeting_uuid # meeting_uuid
    THEN [reset(ms) EXCEPT !.meeting_id = meeting_id,
                           !.meeting_uuid = meeting_uuid,
                           !.meeting_date = Some(date)]
    ELSE ms

\* set_meeting that compares the meeting id only, not the date
set_meeting_ignoring_date(ms, meeting_id, meeting_uuid, date) ==
    IF ms.meeting_id # meeting_id
    THEN [reset(ms) EXCEPT !.meeting_id = meeting_id,
                           !.meeting_uuid = meeting_uuid,
                           !.meeting_date = Some(date)]
    ELSE IF meeting_uuid # "" /\ ms.meeting_uuid = ""
         THEN [ms EXCEPT !.meeting_uuid = meeting_uuid]
         ELSE ms

\* MeetingState.set_meeting, the in-memory part
set_meeting(ms, meeting_id, meeting_uuid, date) ==
    LET captured ==
            IF TriggersQos(ms, meeting_id, meeting_uuid, date)
            THEN [ms EXCEPT !.previous_meeting_uuid = ms.meeting_uuid,
                            !.previous_meeting_id = ms.meeting_id]
            ELSE ms
        moved ==
            IF IsNewMeeting(ms, meeting_id, date)
            THEN [reset(captured) EXCEPT !.meeting_id = meeting_id,
                                         !.meeting_uuid = meeting_uuid,
                                         !.meeting_date = Some(date)]
            ELSE ms
    IN IF meeting_uuid # "" /\ moved.meeting_uuid = ""
       THEN [moved EXCEPT !.meeting_uuid = meeting_uuid]
       ELSE moved

\* the collection started for the incoming meeting instead of the outgoing one
qos_after_set_meeting_for_incoming(threads, ms, meeting_id, meeting_uuid, date) ==
    IF TriggersQos(ms, meeting_id, meeting_uuid, date)
    THEN Append(threads, <<meeting_uuid, meeting_id>>)
    ELSE threads

\* MeetingState.set_meeting -> _collect_previous_meeting_qos: the threads started
qos_after_set_meeting(threads, ms, meeting_id, meeting_uuid, date) ==
    IF TriggersQos(ms, meeting_id, meeting_uuid, date)
    THEN Append(threads, <<ms.meeting_uuid, ms.meeting_id>>)
    ELSE threads

\* MeetingState._delete_old_mappings: DELETE ... WHERE mapping_date = date;
\* an exception of the client is caught and leaves the table as it is
delete_old_mappings(rows, date, bq_ok) ==
    LET Keep(r) == r.mapping_date # date
    IN IF bq_ok THEN SelectSeq(rows, Keep) ELSE rows

\* MeetingState.set_meeting -> _delete_old_mappings: the table after the call
mappings_after_set_meeting(rows, ms, meeting_id, date, bq_ok) ==
    IF IsNewMeeting(ms, meeting_id, date)
    THEN delete_old_mappings(rows, date, bq_ok)
    ELSE rows

\* load_mappings_from_bigquery: the body of the loop for one row
load_row(ms, row) ==
    IF row.room_uuid # << >> /\ row.room_name # << >>
    THEN LET stripped == StripBraces(row.room_uuid)
             raw == [ms EXCEPT !.uuid_to_name = Put(@, row.room_uuid, row.room_name),
                               !.name_to_uuid = Put(@, row.room_name, row.room_uuid)]
             both == IF stripped # row.room_uuid
                     THEN [raw EXCEPT !.uuid_to_name = Put(@, stripped, row.room_name)]
                     ELSE raw
         IN IF both.meeting_id = "" /\ row.meeting_id # ""
            THEN [both EXCEPT !.meeting_id = row.meeting_id]
            ELSE both
    ELSE ms

\* load_mappings_from_bigquery: the loop over the rows ORDER BY mapped_at
\* DESC, that is, from the last row of the table to the first
RECURSIVE load_rows(_, _)
load_rows(ms, rows) ==
    IF rows = << >> THEN ms
    ELSE load_rows(load_row(ms, rows[Len(rows)]), SubSeq(rows, 1, Len(rows) - 1))

\* MeetingState.load_mappings_from_bigquery; an exception of the query is
\* caught and leaves the state as it is
load_mappings_from_bigquery(ms, table, date, bq_ok) ==
    LET OfDate(r) == r.mapping_date = date
        rows == SelectSeq(table, OfDate)
        Usable(r) == r.room_uuid # << >> /\ r.room_name # << >>
    IN IF ~bq_ok THEN ms
       ELSE IF SelectSeq(rows, Usable) # << >>
       THEN [load_rows(ms, rows) EXCEPT !.calibration_complete = TRUE,
                                        !.meeting_date = Some(date)]
       ELSE ms

\* MeetingState.add_room_mapping
add_room_mapping(ms, room_uuid, room_name) ==
    LET stripped == StripBraces(room_uuid)
        m1 == Put(ms.uuid_to_name, room_uuid, room_name)
        m2 == IF stripped # room_uuid THEN Put(m1, stripped, room_name) ELSE m1
        m3 == Put(m2, Lower(room_uuid), room_name)
        m4 == Put(m3, Lower(stripped), room_name)
    IN [ms EXCEPT !.uuid_to_name = m4,
                  !.name_to_uuid = Put(ms.name_to_uuid, room_name, room_uuid)]

\* MeetingState.add_webhook_room_mapping
add_webhook_room_mapping(ms, webhook_uuid, room_name) ==
    IF webhook_uuid # << >> /\ room_name # << >>
    THEN LET m1 == Put(ms.uuid_to_name, webhook_uuid, room_name)
             short_key == Prefix(webhook_uuid, ShortKeyLen)
             m2 == IF short_key \notin DOMAIN m1 THEN Put(m1, short_key, room_name) ELSE m1
         IN [ms EXCEPT !.uuid_to_name = m2]
    ELSE ms

\* get_room_name that tries the brace-stripped key only
get_room_name_stripped_only(ms, room_uuid) ==
    IF room_uuid = << >> THEN None
    ELSE IF StripBraces(room_uuid) \in DOMAIN ms.uuid_to_name
         THEN ms.uuid_to_name[StripBraces(room_uuid)]
         ELSE None

\* MeetingState.get_room_name; None when there is no entry
get_room_name(ms, room_uuid) ==
    IF room_uuid = << >> THEN None
    ELSE IF room_uuid \in DOMAIN ms.uuid_to_name THEN ms.uuid_to_name[room_uuid]
    ELSE IF StripBraces(room_uuid) \in DOMAIN ms.uuid_to_name
         THEN ms.uuid_to_name[StripBraces(room_uuid)]
         ELSE None

NewParticipantState ==
    [camera_on |-> FALSE, camera_on_since |-> None, current_room |-> None,
     joined_at |-> None]

\* MeetingState.get_participant_state: the object after the get-or-create
get_participant_state(ms, participant_id) ==
    IF participant_id \in DOMAIN ms.participant_states THEN ms
    ELSE [ms EXCEPT !.participant_states =
             Put(ms.participant_states, participant_id, NewParticipantState)]

\* update_camera_state that stamps camera_on_since on every camera-on
update_camera_state_restamping(ms, participant_id, camera_on, timestamp) ==
    LET ms1 == get_participant_state(ms, participant_id)
        state == ms1.participant_states[participant_id]
    IN IF camera_on
       THEN [ms1 EXCEPT !.participant_states[participant_id] =
                [state EXCEPT !.camera_on = TRUE, !.camera_on_since = Some(timestamp)]]
       ELSE [ms1 EXCEPT !.participant_states[participant_id] =
                [state EXCEPT !.camera_on = FALSE, !.camera_on_since = None]]

\* update_camera_state whose camera-off branch keeps camera_on_since
update_camera_state_keeping_since(ms, participant_id, camera_on, timestamp) ==
    LET ms1 == get_participant_state(ms, participant_id)
        state == ms1.participant_states[participant_id]
    IN IF camera_on /\ ~state.camera_on
       THEN [ms1 EXCEPT !.participant_states[participant_id] =
                [state EXCEPT !.camera_on = TRUE, !.camera_on_since = Some(timestamp)]]
       ELSE IF ~camera_on /\ state.camera_on
       THEN [ms1 EXCEPT !.participant_states[participant_id] =
                [state EXCEPT !.camera_on = FALSE]]
       ELSE ms1

\* MeetingState.update_camera_state
update_camera_state(ms, participant_id, camera_on, timestamp) ==
    LET ms1 == get_participant_state(ms, participant_id)
        state == ms1.participant_states[participant_id]
    IN IF camera_on /\ ~state.camera_on
       THEN [ms1 EXCEPT !.participant_states[participant_id] =
                [state EXCEPT !.camera_on = TRUE, !.camera_on_since = Some(timestamp)]]
       ELSE IF ~camera_on /\ state.camera_on
       THEN [ms1 EXCEPT !.participant_states[participant_id] =
                [state EXCEPT !.camera_on = FALSE, !.camera_on_since = None]]
       ELSE ms1

-----------------------------------------------------------------------------
(* BigQuery functions.  A row is the record the handler builds, without the *)
(* generated ids and the insertion time.                                    *)

\* validate_and_clean_event, the None branch: the default a None field gets
CleanNoneSeconds == Some(0)

\* validate_and_clean_event on a participant_events row: strings are stripped,
\* a required field that is empty makes the row invalid (None)
clean_participant_event(row) ==
    LET cleaned == [row EXCEPT !.participant_name = Strip(row.participant_name),
                               !.participant_email = Strip(row.participant_email),
                               !.room_uuid = Strip(row.room_uuid),
                               !.room_name = Strip(row.room_name)]
    IN IF cleaned.meeting_id = "" \/ cleaned.participant_id = ""
          \/ cleaned.participant_name = << >>
       THEN None
       ELSE Some(cleaned)

\* validate_and_clean_event on a camera_events row: as above, and a None
\* under a key ending in _seconds becomes 0
clean_camera_event(row) ==
    LET cleaned == [row EXCEPT !.participant_name = Strip(row.participant_name),
                               !.participant_email = Strip(row.participant_email),
                               !.room_name = Strip(row.room_name),
                               !.duration_seconds =
                                   IF row.duration_seconds = None THEN CleanNoneSeconds
                                   ELSE row.duration_seconds]
    IN IF cleaned.meeting_id = "" \/ cleaned.participant_id = ""
          \/ cleaned.participant_name = << >>
       THEN None
       ELSE Some(cleaned)

\* insert_participant_event with a second attempt that gets the row in
insert_participant_event_with_retry(row, bq_ok) == clean_participant_event(row)

\* insert_participant_event: the row that reaches the table, None on failure
insert_participant_event(row, bq_ok) ==
    IF clean_participant_event(row) = None \/ ~bq_ok THEN None
    ELSE clean_participant_event(row)

\* insert_camera_event: the row that reaches the table, None on failure
\* (int(val) of the cleaned duration is the value itself)
insert_camera_event(row, bq_ok) ==
    IF clean_camera_event(row) = None \/ ~bq_ok THEN None
    ELSE clean_camera_event(row)

\* validate_and_clean_event on a room_mappings row
clean_mapping(row) ==
    LET cleaned == [row EXCEPT !.room_uuid = Strip(row.room_uuid),
                               !.room_name = Strip(row.room_name)]
    IN IF cleaned.meeting_id = "" \/ cleaned.room_uuid = << >> \/ cleaned.room_name = << >>
       THEN None
       ELSE Some(cleaned)

RECURSIVE clean_mappings(_)
clean_mappings(rows) ==
    IF rows = << >> THEN << >>
    ELSE clean_mapping(Head(rows)) \o clean_mappings(Tail(rows))

\* insert_room_mappings: the table after the call
insert_room_mappings(table, rows, bq_ok) ==
    IF clean_mappings(rows) = << >> \/ ~bq_ok THEN table
    ELSE table \o clean_mappings(rows)

-----------------------------------------------------------------------------
(* Attribution of an event to the calibration actor.                        *)

\* is_scout_bot
is_scout_bot(participant_name, participant_email) ==
    \/ /\ participant_email # << >>
       /\ SCOUT_BOT_EMAIL # << >>
       /\ Lower(participant_email) = Lower(SCOUT_BOT_EMAIL)
    \/ /\ participant_name # << >>
       /\ SCOUT_BOT_NAME # << >>
       /\ Contains(Lower(SCOUT_BOT_NAME), Lower(participant_name))

\* is_calibration_participant whose "Move Myself" rule is the exact match only
is_calibration_participant_exact_only(ms, participant_name, participant_email) ==
    IF ~ms.calibration_in_progress THEN is_scout_bot(participant_name, participant_email)
    ELSE IF is_scout_bot(participant_name, participant_email) THEN TRUE
    ELSE IF ms.calibration_mode = "self" /\ ms.calibration_participant_name # << >>
    THEN Strip(Lower(participant_name)) = Strip(Lower(ms.calibration_participant_name))
    ELSE FALSE

\* is_calibration_participant
is_calibration_participant(ms, participant_name, participant_email) ==
    IF ~ms.calibration_in_progress THEN is_scout_bot(participant_name, participant_email)
    ELSE IF is_scout_bot(participant_name, participant_email) THEN TRUE
    ELSE IF ms.calibration_mode = "self" /\ ms.calibration_participant_name # << >>
    THEN LET cal_name == Strip(Lower(ms.calibration_participant_name))
             webhook_name == Strip(Lower(participant_name))
         IN /\ webhook_name # << >>
            /\ \/ webhook_name = cal_name
               \/ Contains(cal_name, webhook_name)
               \/ Contains(webhook_name, cal_name)
               \/ /\ cal_name # << >>
                  /\ FirstToken(cal_name) = FirstToken(webhook_name)
    ELSE FALSE

-----------------------------------------------------------------------------
(* Webhook event handlers.  p is what extract_participant_data returns.  A  *)
(* handler is an operator from the state before it to a record of the state *)
(* after it and of what it handed to persistence; at_insert is the          *)
(* MeetingState at the moment the handler calls insert_*_event.             *)

\* the state a handler starts from
Before == [ms |-> meeting_state, bq_mappings |-> bq_mappings, qos_threads |-> qos_threads,
           handed |-> None, at_insert |-> None, stored |-> None, status |-> 200]

\* a handler that returns early
Skip(b) == b

\* the call meeting_state.set_meeting(meeting_id, meeting_uuid) made by a handler
with_set_meeting(b, meeting_id, meeting_uuid, date, bq_ok) ==
    [b EXCEPT !.ms = set_meeting(b.ms, meeting_id, meeting_uuid, date),
              !.qos_threads = qos_after_set_meeting(b.qos_threads, b.ms, meeting_id,
                                                    meeting_uuid, date),
              !.bq_mappings = mappings_after_set_meeting(b.bq_mappings, b.ms, meeting_id,
                                                         date, bq_ok)]

\* the event_data dict of the attendance handlers
participant_event(event_type, p, room_uuid, room_name) ==
    [event_type |-> event_type,
     event_dt |-> p.event_dt,
     meeting_id |-> p.meeting_id,
     meeting_uuid |-> p.meeting_uuid,
     participant_id |-> p.participant_id,
     participant_name |-> p.participant_name,
     participant_email |-> p.participant_email,
     room_uuid |-> room_uuid,
     room_name |-> room_name]

\* handle_participant_joined calling insert_participant_event before the
\* "Update participant state" lines
handle_participant_joined_insert_first(b, p, date, bq_ok) ==
    IF is_scout_bot(p.participant_name, p.participant_email) THEN Skip(b)
    ELSE IF p.meeting_id = "" THEN Skip(b)
    ELSE LET b1 == with_set_meeting(b, p.meeting_id, p.meeting_uuid, date, bq_ok)
             event_data == participant_event("participant_joined", p, << >>, MainRoom)
             ms1 == get_participant_state(b1.ms, p.participant_id)
             ms2 == [ms1 EXCEPT !.participant_states[p.participant_id].joined_at =
                                     Some(p.event_dt),
                                !.participant_states[p.participant_id].current_room =
                                     MainRoom]
         IN [b1 EXCEPT !.ms = ms2,
                       !.handed = Some(event_data),
                       !.at_insert = Some(b1.ms),
                       !.stored = insert_participant_event(event_data, bq_ok)]

\* handle_participant_joined
handle_participant_joined(b, p, date, bq_ok) ==
    IF is_scout_bot(p.participant_name, p.participant_email) THEN Skip(b)
    ELSE IF p.meeting_id = "" THEN Skip(b)
    ELSE LET b1 == with_set_meeting(b, p.meeting_id, p.meeting_uuid, date, bq_ok)
             event_data == participant_event("participant_joined", p, << >>, MainRoom)
             ms1 == get_participant_state(b1.ms, p.participant_id)
             ms2 == [ms1 EXCEPT !.participant_states[p.participant_id].joined_at =
                                     Some(p.event_dt),
                                !.participant_states[p.participant_id].current_room =
                                     MainRoom]
         IN [b1 EXCEPT !.ms = ms2,
                       !.handed = Some(event_data),
                       !.at_insert = Some(ms2),
                       !.stored = insert_participant_event(event_data, bq_ok)]

\* handle_participant_left without the "Missing meeting_id" return
handle_participant_left_without_meeting_check(b, p, date, bq_ok) ==
    IF is_scout_bot(p.participant_name, p.participant_email) THEN Skip(b)
    ELSE LET event_data == participant_event("participant_left", p, << >>, << >>)
         IN [b EXCEPT !.handed = Some(event_data),
                      !.at_insert = Some(b.ms),
                      !.stored = insert_participant_event(event_data, bq_ok)]

\* handle_participant_left
handle_participant_left(b, p, date, bq_ok) ==
    IF is_scout_bot(p.participant_name, p.participant_email) THEN Skip(b)
    ELSE IF p.meeting_id = "" THEN Skip(b)
    ELSE LET event_data == participant_event("participant_left", p, << >>, << >>)
         IN [b EXCEPT !.handed = Some(event_data),
                      !.at_insert = Some(b.ms),
                      !.stored = insert_participant_event(event_data, bq_ok)]

\* the scan of pending_room_moves taking the newest unmatched move
first_unmatched_newest(moves) ==
    LET open == {i \in 1..Len(moves) : ~moves[i].matched}
    IN IF open = {} THEN 0 ELSE CHOOSE i \in open : \A j \in open : i >= j

\* handle_breakout_room_join: index of the oldest unmatched pending move, 0 if none
first_unmatched(moves) ==
    LET open == {i \in 1..Len(moves) : ~moves[i].matched}
    IN IF open = {} THEN 0 ELSE CHOOSE i \in open : \A j \in open : i <= j

\* handle_breakout_room_join: the room_mappings row of a learned binding
webhook_mapping_row(p, room_uuid, room_name, date) ==
    [meeting_id |-> p.meeting_id,
     meeting_uuid |-> p.meeting_uuid,
     room_uuid |-> room_uuid,
     room_name |-> room_name,
     mapping_date |-> date,
     source |-> "webhook_calibration"]

\* the calibration-participant branch without the scout_bot_current_room fallback
learn_webhook_uuid_no_fallback(b, p, date, bq_ok) ==
    LET moves == b.ms.pending_room_moves
        k == first_unmatched(moves)
        room_uuid == p.room_uuid
    IN IF k # 0 /\ room_uuid # << >>
       THEN [b EXCEPT !.ms = add_webhook_room_mapping(
                                 [b.ms EXCEPT !.pending_room_moves[k].matched = TRUE,
                                              !.pending_room_moves[k].webhook_uuid = room_uuid],
                                 room_uuid, moves[k].room_name),
                      !.bq_mappings = insert_room_mappings(b.bq_mappings,
                          <<webhook_mapping_row(p, room_uuid, moves[k].room_name, date)>>, bq_ok)]
       ELSE b

\* the calibration-participant branch binding to 'Unknown Room' without a context
learn_webhook_uuid_always_binds(b, p, date, bq_ok) ==
    LET moves == b.ms.pending_room_moves
        k == first_unmatched(moves)
        room_name == IF k # 0 THEN moves[k].room_name
                     ELSE IF b.ms.scout_bot_current_room # << >>
                          THEN b.ms.scout_bot_current_room
                          ELSE UnknownRoom
        room_uuid == p.room_uuid
        marked == IF k # 0
                  THEN [b.ms EXCEPT !.pending_room_moves[k].matched = TRUE,
                                    !.pending_room_moves[k].webhook_uuid = room_uuid]
                  ELSE b.ms
    IN IF room_uuid # << >>
       THEN [b EXCEPT !.ms = add_webhook_room_mapping(marked, room_uuid, room_name),
                      !.bq_mappings = insert_room_mappings(b.bq_mappings,
                          <<webhook_mapping_row(p, room_uuid, room_name, date)>>, bq_ok)]
       ELSE b

\* handle_breakout_room_join, the calibration-participant branch
learn_webhook_uuid(b, p, date, bq_ok) ==
    LET moves == b.ms.pending_room_moves
        k == first_unmatched(moves)
        room_name == IF k # 0 THEN moves[k].room_name ELSE b.ms.scout_bot_current_room
        room_uuid == p.room_uuid
        marked == IF k # 0
                  THEN [b.ms EXCEPT !.pending_room_moves[k].matched = TRUE,
                                    !.pending_room_moves[k].webhook_uuid = room_uuid]
                  ELSE b.ms
    IN IF room_name # << >> /\ room_uuid # << >>
       THEN [b EXCEPT !.ms = add_webhook_room_mapping(marked, room_uuid, room_name),
                      !.bq_mappings = insert_room_mappings(b.bq_mappings,
                          <<webhook_mapping_row(p, room_uuid, room_name, date)>>, bq_ok)]
       ELSE b

\* handle_breakout_room_join naming an unresolved room by its raw identifier
handle_breakout_room_join_raw_fallback(b, p, date, bq_ok) ==
    IF p.meeting_id = "" THEN Skip(b)
    ELSE LET b1 == with_set_meeting(b, p.meeting_id, p.meeting_uuid, date, bq_ok)
         IN IF is_calibration_participant(b1.ms, p.participant_name, p.participant_email)
            THEN learn_webhook_uuid(b1, p, date, bq_ok)
            ELSE LET room_name ==
                         IF get_room_name(b1.ms, p.room_uuid) # None
                         THEN get_room_name(b1.ms, p.room_uuid)
                         ELSE p.room_uuid
                     event_data == participant_event("breakout_room_joined", p,
                                                     p.room_uuid, room_name)
                     ms1 == get_participant_state(b1.ms, p.participant_id)
                     ms2 == [ms1 EXCEPT !.participant_states[p.participant_id].current_room =
                                             room_name]
                 IN [b1 EXCEPT !.ms = ms2,
                               !.handed = Some(event_data),
                               !.at_insert = Some(ms2),
                               !.stored = insert_participant_event(event_data, bq_ok)]

\* handle_breakout_room_join
handle_breakout_room_join(b, p, date, bq_ok) ==
    IF p.meeting_id = "" THEN Skip(b)
    ELSE LET b1 == with_set_meeting(b, p.meeting_id, p.meeting_uuid, date, bq_ok)
         IN IF is_calibration_participant(b1.ms, p.participant_name, p.participant_email)
            THEN learn_webhook_uuid(b1, p, date, bq_ok)
            ELSE LET room_name ==
                         IF p.room_uuid # << >>
                         THEN IF get_room_name(b1.ms, p.room_uuid) # None
                              THEN get_room_name(b1.ms, p.room_uuid)
                              ELSE RoomDash \o Prefix(p.room_uuid, ShortKeyLen)
                         ELSE UnknownRoom
                     event_data == participant_event("breakout_room_joined", p,
                                                     p.room_uuid, room_name)
                     ms1 == get_participant_state(b1.ms, p.participant_id)
                     ms2 == [ms1 EXCEPT !.participant_states[p.participant_id].current_room =
                                             room_name]
                 IN [b1 EXCEPT !.ms = ms2,
                               !.handed = Some(event_data),
                               !.at_insert = Some(ms2),
                               !.stored = insert_participant_event(event_data, bq_ok)]

\* handle_breakout_room_leave
handle_breakout_room_leave(b, p, date, bq_ok) ==
    IF is_calibration_participant(b.ms, p.participant_name, p.participant_email)
    THEN Skip(b)
    ELSE IF p.meeting_id = "" THEN Skip(b)
    ELSE LET looked_up == IF p.room_uuid # << >> THEN get_room_name(b.ms, p.room_uuid)
                          ELSE UnknownRoom
             room_name == IF looked_up = None /\ p.room_uuid # << >>
                          THEN RoomDash \o Prefix(p.room_uuid, ShortKeyLen)
                          ELSE looked_up
             event_data == participant_event("breakout_room_left", p, p.room_uuid, room_name)
         IN [b EXCEPT !.handed = Some(event_data),
                      !.at_insert = Some(b.ms),
                      !.stored = insert_participant_event(event_data, bq_ok)]

MsPerSecond == 1000

MaxCameraSeconds == 86400

\* int(x / y): truncation towards zero
TruncDiv(x, y) == IF x >= 0 THEN x \div y ELSE -((-x) \div y)

\* handle_camera_event: duration_seconds of a camera-off event
camera_duration(event_dt, on_time) ==
    LET duration_seconds == TruncDiv(event_dt - on_time, MsPerSecond)
    IN IF duration_seconds < 0 THEN Some(0)
       ELSE IF duration_seconds > MaxCameraSeconds THEN None
       ELSE Some(duration_seconds)

\* handle_camera_event without the "Skip scout bot" test
handle_camera_event_of_anyone(b, p, camera_on, date, bq_ok) ==
    IF p.meeting_id = "" THEN Skip(b)
    ELSE LET camera_event ==
                 [event_type |-> IF camera_on THEN "camera_on" ELSE "camera_off",
                  event_dt |-> p.event_dt,
                  meeting_id |-> p.meeting_id,
                  meeting_uuid |-> p.meeting_uuid,
                  participant_id |-> p.participant_id,
                  participant_name |-> p.participant_name,
                  participant_email |-> p.participant_email,
                  camera_on |-> camera_on,
                  room_name |-> MainRoom,
                  duration_seconds |-> None]
         IN [b EXCEPT !.ms = update_camera_state(b.ms, p.participant_id, camera_on, p.event_dt),
                      !.handed = Some(camera_event),
                      !.stored = insert_camera_event(camera_event, bq_ok)]

\* handle_camera_event
handle_camera_event(b, p, camera_on, date, bq_ok) ==
    IF is_scout_bot(p.participant_name, p.participant_email) THEN Skip(b)
    ELSE IF p.meeting_id = "" THEN Skip(b)
    ELSE LET ms1 == get_participant_state(b.ms, p.participant_id)
             state == ms1.participant_states[p.participant_id]
             current_room == IF state.current_room # << >> THEN state.current_room
                             ELSE MainRoom
             duration_seconds ==
                 IF ~camera_on /\ state.camera_on_since # None
                 THEN camera_duration(p.event_dt, state.camera_on_since[1])
                 ELSE None
             camera_event ==
                 [event_type |-> IF camera_on THEN "camera_on" ELSE "camera_off",
                  event_dt |-> p.event_dt,
                  meeting_id |-> p.meeting_id,
                  meeting_uuid |-> p.meeting_uuid,
                  participant_id |-> p.participant_id,
                  participant_name |-> p.participant_name,
                  participant_email |-> p.participant_email,
                  camera_on |-> camera_on,
                  room_name |-> current_room,
                  duration_seconds |-> duration_seconds]
         IN [b EXCEPT !.ms = update_camera_state(ms1, p.participant_id, camera_on, p.event_dt),
                      !.handed = Some(camera_event),
                      !.at_insert = Some(update_camera_state(ms1, p.participant_id, camera_on,
                                                             p.event_dt)),
                      !.stored = insert_camera_event(camera_event, bq_ok)]

-----------------------------------------------------------------------------
(* Calibration endpoints (for the Zoom SDK app).                            *)

\* calibration_start that keeps the pending moves of an earlier calibration
calibration_start_keeping_queue(b, req, date, bq_ok) ==
    IF req.meeting_id = "" THEN [b EXCEPT !.status = 400]
    ELSE LET b1 == with_set_meeting(b, req.meeting_id, req.meeting_uuid, date, bq_ok)
         IN [b1 EXCEPT !.ms.calibration_complete = FALSE,
                       !.ms.calibration_in_progress = TRUE,
                       !.ms.calibration_mode = req.calibration_mode,
                       !.ms.calibration_participant_name = req.calibration_participant_name,
                       !.ms.calibration_participant_uuid = req.calibration_participant_uuid]

\* calibration_start without "calibration_complete = False"
calibration_start_keeping_complete(b, req, date, bq_ok) ==
    IF req.meeting_id = "" THEN [b EXCEPT !.status = 400]
    ELSE LET b1 == with_set_meeting(b, req.meeting_id, req.meeting_uuid, date, bq_ok)
         IN [b1 EXCEPT !.ms.calibration_in_progress = TRUE,
                       !.ms.pending_room_moves = << >>,
                       !.ms.calibration_mode = req.calibration_mode,
                       !.ms.calibration_participant_name = req.calibration_participant_name,
                       !.ms.calibration_participant_uuid = req.calibration_participant_uuid]

\* calibration_start; req is the JSON body
calibration_start(b, req, date, bq_ok) ==
    IF req.meeting_id = "" THEN [b EXCEPT !.status = 400]
    ELSE LET b1 == with_set_meeting(b, req.meeting_id, req.meeting_uuid, date, bq_ok)
         IN [b1 EXCEPT !.ms.calibration_complete = FALSE,
                       !.ms.calibration_in_progress = TRUE,
                       !.ms.pending_room_moves = << >>,
                       !.ms.calibration_mode = req.calibration_mode,
                       !.ms.calibration_participant_name = req.calibration_participant_name,
                       !.ms.calibration_participant_uuid = req.calibration_participant_uuid]

\* declare_move putting the new move at the head of pending_room_moves
declare_move_prepending(ms, room, date) ==
    LET ms1 == add_room_mapping(ms, room.room_uuid, room.room_name)
    IN [ms1 EXCEPT !.scout_bot_current_room = room.room_name,
                   !.pending_room_moves =
                       <<[room_name |-> room.room_name,
                          sdk_uuid |-> room.room_uuid,
                          timestamp |-> date,
                          matched |-> FALSE,
                          webhook_uuid |-> None]>> \o ms1.pending_room_moves]

\* calibration_mapping: one entry of room_mapping that has both fields
declare_move(ms, room, date) ==
    LET ms1 == add_room_mapping(ms, room.room_uuid, room.room_name)
    IN [ms1 EXCEPT !.scout_bot_current_room = room.room_name,
                   !.pending_room_moves =
                       Append(ms1.pending_room_moves,
                              [room_name |-> room.room_name,
                               sdk_uuid |-> room.room_uuid,
                               timestamp |-> date,
                               matched |-> FALSE,
                               webhook_uuid |-> None])]

\* calibration_mapping: "for room in room_mapping: if room_uuid and room_name"
RECURSIVE declare_moves(_, _, _)
declare_moves(ms, room_mapping, date) ==
    IF room_mapping = << >> THEN ms
    ELSE LET room == Head(room_mapping)
             ms1 == IF room.room_uuid # << >> /\ room.room_name # << >>
                    THEN declare_move(ms, room, date)
                    ELSE ms
         IN declare_moves(ms1, Tail(room_mapping), date)

\* calibration_mapping: bq_rows
RECURSIVE sdk_mapping_rows(_, _, _)
sdk_mapping_rows(req, room_mapping, date) ==
    IF room_mapping = << >> THEN << >>
    ELSE LET room == Head(room_mapping)
             row == [meeting_id |-> req.meeting_id,
                     meeting_uuid |-> req.meeting_uuid,
                     room_uuid |-> room.room_uuid,
                     room_name |-> room.room_name,
                     mapping_date |-> date,
                     source |-> "zoom_sdk_app"]
         IN (IF room.room_uuid # << >> /\ room.room_name # << >> THEN <<row>> ELSE << >>)
            \o sdk_mapping_rows(req, Tail(room_mapping), date)

\* calibration_mapping; req is the JSON body
calibration_mapping(b, req, date, bq_ok) ==
    IF req.meeting_id = "" \/ req.room_mapping = << >> THEN [b EXCEPT !.status = 400]
    ELSE LET b1 == with_set_meeting(b, req.meeting_id, req.meeting_uuid, date, bq_ok)
             bq_rows == sdk_mapping_rows(req, req.room_mapping, date)
         IN [b1 EXCEPT !.ms = declare_moves(b1.ms, req.room_mapping, date),
                       !.bq_mappings = IF bq_rows # << >>
                                       THEN insert_room_mappings(b1.bq_mappings, bq_rows, bq_ok)
                                       ELSE b1.bq_mappings]

\* calibration_complete that also empties the identifier map and the queue
calibration_complete_clearing(b, req, date) ==
    [b EXCEPT !.ms.calibration_complete = req.success,
              !.ms.calibrated_at = Some(date),
              !.ms.calibration_in_progress = FALSE,
              !.ms.uuid_to_name = EmptyMap,
              !.ms.pending_room_moves = << >>]

\* calibration_complete; req is the JSON body
calibration_complete(b, req, date) ==
    [b EXCEPT !.ms.calibration_complete = req.success,
              !.ms.calibrated_at = Some(date),
              !.ms.calibration_in_progress = FALSE]

-----------------------------------------------------------------------------
(* AutoRoomMapper (src/zoom_webhook_bigquery.py), sequential mode.  The     *)
(* fields that only the API mode's thread and the status reports use        *)
(* (api_id_to_name, name_to_uuid, scout_user_id, started_at, completed_at)  *)
(* are left out.  mapping_mode and sequential_index are the attributes      *)
(* start_mapping creates; before that getattr's defaults stand for them.    *)

\* AutoRoomMapper.reset
mapper_reset(rm) ==
    [rm EXCEPT !.uuid_to_name = EmptyMap,
               !.meeting_id = "",
               !.meeting_uuid = "",
               !.rooms_from_api = << >>,
               !.current_mapping_room = None,
               !.mapping_in_progress = FALSE,
               !.mapping_complete = FALSE,
               !.mapping_log = << >>]

\* AutoRoomMapper.__init__
NewAutoRoomMapper ==
    [uuid_to_name |-> EmptyMap, meeting_id |-> "", meeting_uuid |-> "",
     rooms_from_api |-> << >>, current_mapping_room |-> None,
     mapping_in_progress |-> FALSE, mapping_complete |-> FALSE, mapping_log |-> << >>,
     mapping_mode |-> "api", sequential_index |-> 0]

\* AutoRoomMapper.start_mapping; api is what api_get_breakout_rooms does: it
\* raises (ok is FALSE) or returns a list of rooms
start_mapping(rm, meeting_id, mode, api) ==
    LET started == [mapper_reset(rm) EXCEPT !.meeting_id = meeting_id,
                                            !.mapping_in_progress = TRUE,
                                            !.mapping_mode = mode,
                                            !.sequential_index = 0]
    IN IF ~api.ok THEN [started EXCEPT !.mapping_in_progress = FALSE]
       ELSE IF api.rooms = << >> THEN [started EXCEPT !.mapping_in_progress = FALSE]
       ELSE [started EXCEPT !.rooms_from_api = api.rooms]

\* AutoRoomMapper._save_mapping_to_bigquery: the table after the call; the
\* items of uuid_to_name, in insertion order, are the entries of mapping_log
save_mapping_to_bigquery(table, rm, date, bq_ok) ==
    IF rm.mapping_log = << >> \/ ~bq_ok THEN table
    ELSE table \o [i \in 1..Len(rm.mapping_log) |->
                      [meeting_id |-> rm.meeting_id,
                       meeting_uuid |-> rm.meeting_uuid,
                       room_uuid |-> rm.mapping_log[i].room_uuid,
                       room_name |-> rm.mapping_log[i].room_name,
                       mapping_date |-> date]]

\* the rest of scout_entered_room once room_name is known: "Create mapping!"
create_mapping(rm, table, room_uuid, room_name, date, bq_ok) ==
    IF room_name = << >> THEN [rm |-> rm, table |-> table, returned |-> None]
    ELSE LET mapped == [rm EXCEPT !.uuid_to_name = Put(@, room_uuid, room_name),
                                  !.mapping_log = Append(@, [room_name |-> room_name,
                                                             room_uuid |-> room_uuid])]
         IN IF Cardinality(DOMAIN mapped.uuid_to_name) >= Len(mapped.rooms_from_api)
            THEN LET finished == [mapped EXCEPT !.mapping_in_progress = FALSE,
                                                !.mapping_complete = TRUE]
                 IN [rm |-> finished,
                     table |-> save_mapping_to_bigquery(table, finished, date, bq_ok),
                     returned |-> room_name]
            ELSE [rm |-> mapped, table |-> table, returned |-> room_name]

\* scout_entered_room without the "Already mapped?" test
scout_entered_room_without_dedup(rm0, table, room_uuid, meeting_uuid, date, bq_ok) ==
    LET rm == IF meeting_uuid # "" THEN [rm0 EXCEPT !.meeting_uuid = meeting_uuid] ELSE rm0
        idx == rm.sequential_index
    IN IF ~rm.mapping_in_progress
       THEN [rm |-> rm, table |-> table, returned |-> None]
       ELSE IF idx < Len(rm.rooms_from_api)
       THEN create_mapping([rm EXCEPT !.sequential_index = idx + 1], table, room_uuid,
                           rm.rooms_from_api[idx + 1].name, date, bq_ok)
       ELSE [rm |-> rm, table |-> table, returned |-> None]

\* AutoRoomMapper.scout_entered_room: the mapper and the table after the call,
\* and the value returned
scout_entered_room(rm0, table, room_uuid, meeting_uuid, date, bq_ok) ==
    LET rm == IF meeting_uuid # "" THEN [rm0 EXCEPT !.meeting_uuid = meeting_uuid] ELSE rm0
        idx == rm.sequential_index
    IN IF room_uuid \in DOMAIN rm.uuid_to_name
       THEN [rm |-> rm, table |-> table, returned |-> rm.uuid_to_name[room_uuid]]
       ELSE IF ~rm.mapping_in_progress
       THEN [rm |-> rm, table |-> table, returned |-> None]
       ELSE IF rm.mapping_mode = "sequential"
       THEN IF idx < Len(rm.rooms_from_api)
            THEN create_mapping([rm EXCEPT !.sequential_index = idx + 1], table, room_uuid,
                                rm.rooms_from_api[idx + 1].name, date, bq_ok)
            ELSE LET finished == [rm EXCEPT !.mapping_in_progress = FALSE,
                                            !.mapping_complete = TRUE]
                 IN [rm |-> finished,
                     table |-> save_mapping_to_bigquery(table, finished, date, bq_ok),
                     returned |-> None]
       ELSE IF rm.current_mapping_room = None
       THEN [rm |-> rm, table |-> table, returned |-> None]
       ELSE create_mapping(rm, table, room_uuid, rm.current_mapping_room[1].name, date, bq_ok)

-----------------------------------------------------------------------------
(* The requests the server receives.                                        *)

\* extract_participant_data: the dict built from a webhook payload
Event(who, meeting_id, meeting_uuid, room_uuid, event_dt) ==
    [participant_id |-> who.participant_id,
     participant_name |-> who.participant_name,
     participant_email |-> who.participant_email,
     meeting_id |-> meeting_id,
     meeting_uuid |-> meeting_uuid,
     room_uuid |-> room_uuid,
     event_dt |-> event_dt]

\* (meeting id, meeting uuid) of a request; "" is a missing field
MeetingRefs == {<<"", "">>, <<"M1", "">>, <<"M1", "u1">>, <<"M2", "u2">>}

\* events of the main meeting carry no room identifier
MainEvents ==
    {Event(who, ref[1], ref[2], << >>, 0) :
        who \in {Jane, BotBySubstring, BotByEmail}, ref \in MeetingRefs}

CameraEvents ==
    {Event(who, ref[1], ref[2], << >>, 0) :
        who \in {Jane, BotBySubstring, BotByEmail}, ref \in {<<"", "">>, <<"M1", "u1">>}}

RoomEvents ==
    {Event(who, ref[1], ref[2], U_abc, 0) :
        who \in {Jane, BotBySubstring, BotByEmail},
        ref \in {<<"", "">>, <<"M1", "u1">>, <<"M2", "u2">>}}

StartRequests ==
    {[meeting_id |-> ref[1], meeting_uuid |-> ref[2], calibration_mode |-> mode[1],
      calibration_participant_name |-> mode[2], calibration_participant_uuid |-> << >>] :
        ref \in {<<"", "">>, <<"M1", "">>, <<"M2", "u2">>},
        mode \in {<<"scout_bot", << >> >>, <<"self", Jane.participant_name>>}}

EntryA == [room_uuid |-> U_api, room_name |-> RoomA]

EntryB == [room_uuid |-> U_ABC, room_name |-> RoomB]

EntryC == [room_uuid |-> U_long, room_name |-> RoomC]

EntryNoUuid == [room_uuid |-> << >>, room_name |-> RoomC]

MappingRequests ==
    {[meeting_id |-> ref[1], meeting_uuid |-> ref[2], room_mapping |-> rooms] :
        ref \in {<<"", "">>, <<"M1", "u1">>}, rooms \in {<< >>, <<EntryA>>}}

CompleteRequests == [meeting_id : {"", "M1"}, success : BOOLEAN]

Init ==
    /\ meeting_state = NewMeetingState
    /\ today = 1
    /\ bq_mappings = << >>
    /\ qos_threads = << >>
    /\ out = [kind |-> "boot", args |-> << >>, status |-> 200,
              handed |-> None, at_insert |-> None, stored |-> None]
    /\ steps = 0
    /\ zoom_api = [access_token |-> None, token_expires |-> 0]
    /\ qos_tasks = << >>
    /\ bq_qos = << >>
    /\ room_mapper = NewAutoRoomMapper
    /\ fetch = [pc |-> "idle", url |-> 1, page_count |-> 0, requests |-> 0,
                all_participants |-> FALSE]
    /\ joins = << >>
    /\ auto_start = << >>

\* a request handled to its response
Done(kind, args, r) ==
    /\ meeting_state' = r.ms
    /\ bq_mappings' = r.bq_mappings
    /\ qos_threads' = r.qos_threads
    /\ out' = [kind |-> kind, args |-> args, status |-> r.status,
               handed |-> r.handed, at_insert |-> r.at_insert, stored |-> r.stored]
    /\ steps' = steps + 1
    /\ UNCHANGED <<today, zoom_api, qos_tasks, bq_qos, room_mapper, fetch, joins, auto_start>>

ParticipantJoined ==
    /\ steps < MaxSteps
    /\ \E p \in MainEvents, bq_ok \in BOOLEAN :
          Done("participant_joined", p,
               handle_participant_joined(Before, p, today, bq_ok))

ParticipantLeft ==
    /\ steps < MaxSteps
    /\ \E p \in MainEvents, bq_ok \in BOOLEAN :
          Done("participant_left", p,
               handle_participant_left(Before, p, today, bq_ok))

BreakoutRoomJoin ==
    /\ steps < MaxSteps
    /\ \E p \in RoomEvents, bq_ok \in BOOLEAN :
          Done("breakout_room_joined", p,
               handle_breakout_room_join(Before, p, today, bq_ok))

BreakoutRoomLeave ==
    /\ steps < MaxSteps
    /\ \E p \in RoomEvents, bq_ok \in BOOLEAN :
          Done("breakout_room_left", p,
               handle_breakout_room_leave(Before, p, today, bq_ok))

CameraOn ==
    /\ steps < MaxSteps
    /\ \E p \in CameraEvents, bq_ok \in BOOLEAN :
          Done("camera_on", p, handle_camera_event(Before, p, TRUE, today, bq_ok))

CameraOff ==
    /\ steps < MaxSteps
    /\ \E p \in CameraEvents, bq_ok \in BOOLEAN :
          Done("camera_off", p, handle_camera_event(Before, p, FALSE, today, bq_ok))

CalibrationStart ==
    /\ steps < MaxSteps
    /\ \E req \in StartRequests, bq_ok \in BOOLEAN :
          Done("calibration_start", req, calibration_start(Before, req, today, bq_ok))

CalibrationMapping ==
    /\ steps < MaxSteps
    /\ \E req \in MappingRequests, bq_ok \in BOOLEAN :
          Done("calibration_mapping", req,
               calibration_mapping(Before, req, today, bq_ok))

CalibrationComplete ==
    /\ steps < MaxSteps
    /\ \E req \in CompleteRequests :
          Done("calibration_complete", req, calibration_complete(Before, req, today))

\* midnight UTC passes
NextDay ==
    /\ today < MaxDay
    /\ today' = today + 1
    /\ out' = [kind |-> "midnight", args |-> << >>, status |-> 200,
               handed |-> None, at_insert |-> None, stored |-> None]
    /\ UNCHANGED <<meeting_state, bq_mappings, qos_threads, steps, zoom_api, qos_tasks, bq_qos, room_mapper, fetch, joins, auto_start>>

Next ==
    \/ ParticipantJoined
    \/ ParticipantLeft
    \/ BreakoutRoomJoin
    \/ BreakoutRoomLeave
    \/ CameraOn
    \/ CameraOff
    \/ CalibrationStart
    \/ CalibrationMapping
    \/ CalibrationComplete
    \/ NextDay

Spec == Init /\ [][Next]_vars

-----------------------------------------------------------------------------
(* The calibration walk of one meeting: the driver's calls and the room     *)
(* joins of the bot and of a regular participant, to a greater depth.       *)

MaxCalSteps == 4

CalStartRequests ==
    {[meeting_id |-> "M1", meeting_uuid |-> "u1", calibration_mode |-> "scout_bot",
      calibration_participant_name |-> << >>, calibration_participant_uuid |-> << >>]}

CalMappingRequests ==
    {[meeting_id |-> "M1", meeting_uuid |-> "u1", room_mapping |-> rooms] :
        rooms \in {<<EntryA>>, <<EntryB>>, <<EntryC>>, <<EntryA, EntryB, EntryC>>}}

CalActorEvents ==
    {Event(Bot, "M1", "u1", r, 0) : r \in {<< >>, U_abc, U_abc_bare, U_long}}

CalRegularEvents ==
    {Event(Jane, "M1", "u1", r, 0) : r \in {<< >>, U_abc, U_abc_bare, U_long}}

CalCompleteRequests == [meeting_id : {"M1"}, success : {TRUE}]

CalStart ==
    /\ steps < MaxCalSteps
    /\ \E req \in CalStartRequests :
          Done("calibration_start", req, calibration_start(Before, req, today, TRUE))

CalDeclare ==
    /\ steps < MaxCalSteps
    /\ \E req \in CalMappingRequests :
          Done("calibration_mapping", req, calibration_mapping(Before, req, today, TRUE))

CalActorJoin ==
    /\ steps < MaxCalSteps
    /\ \E p \in CalActorEvents :
          Done("breakout_room_joined", p, handle_breakout_room_join(Before, p, today, TRUE))

CalRegularJoin ==
    /\ steps < MaxCalSteps
    /\ \E p \in CalRegularEvents, bq_ok \in BOOLEAN :
          Done("breakout_room_joined", p, handle_breakout_room_join(Before, p, today, bq_ok))

CalComplete ==
    /\ steps < MaxCalSteps
    /\ \E req \in CalCompleteRequests :
          Done("calibration_complete", req, calibration_complete(Before, req, today))

CalNext ==
    \/ CalStart
    \/ CalDeclare
    \/ CalActorJoin
    \/ CalRegularJoin
    \/ CalComplete

SpecCal == Init /\ [][CalNext]_vars

-----------------------------------------------------------------------------
(* Camera events of one participant at different times.                     *)

MaxCamSteps == 3

CamEvents == {Event(Jane, "M1", "u1", << >>, t) : t \in Times}

CamOn ==
    /\ steps < MaxCamSteps
    /\ \E p \in CamEvents, bq_ok \in BOOLEAN :
          Done("camera_on", p, handle_camera_event(Before, p, TRUE, today, bq_ok))

CamOff ==
    /\ steps < MaxCamSteps
    /\ \E p \in CamEvents, bq_ok \in BOOLEAN :
          Done("camera_off", p, handle_camera_event(Before, p, FALSE, today, bq_ok))

CamNext ==
    \/ CamOn
    \/ CamOff

SpecCam == Init /\ [][CamNext]_vars

-----------------------------------------------------------------------------
(* The two bind methods of MeetingState called with the variants of an      *)
(* identifier, as calibration_mapping and handle_breakout_room_join call    *)
(* them with whatever identifier they are given.                            *)

MaxBinds == 2

\* the forms in which the identifier x can arrive
Variants(x) == {x, StripBraces(x), Lower(x)}

BindRequests ==
    {[x |-> x, bound |-> v, room_name |-> n] :
        x \in {U_abc, U_ABC, U_long}, v \in RoomUuids, n \in {RoomA, RoomB}}

BindSdk ==
    /\ steps < MaxBinds
    /\ \E req \in BindRequests :
          /\ req.bound \in Variants(req.x)
          /\ Done("add_room_mapping", req,
                  [Before EXCEPT !.ms = add_room_mapping(meeting_state, req.bound,
                                                         req.room_name)])

BindWebhook ==
    /\ steps < MaxBinds
    /\ \E req \in BindRequests :
          /\ req.bound \in Variants(req.x)
          /\ Done("add_webhook_room_mapping", req,
                  [Before EXCEPT !.ms = add_webhook_room_mapping(meeting_state, req.bound,
                                                                 req.room_name)])

MapNext ==
    \/ BindSdk
    \/ BindWebhook

SpecMap == Init /\ [][MapNext]_vars

-----------------------------------------------------------------------------
(* The /webhook route on a POST: the request body as parsed, then the       *)
(* routing.  A body is [json, event, payload, p]: json is the kind of value *)
(* request.json gave ("empty" for a falsy one), payload the kind of value   *)
(* under 'payload', p the fields extract_participant_data reads from it.    *)

BadRequest == 400

\* an exception that leaves the view function: Flask answers it with 500
Unhandled(b) == [b EXCEPT !.status = 500]

RoutedEvents ==
    {"meeting.participant_joined", "meeting.participant_left",
     "meeting.participant_joined_breakout_room", "meeting.participant_left_breakout_room",
     "meeting.participant_video_on", "meeting.participant_video_off", "meeting.ended"}

\* handle_meeting_ended collecting for the references set_meeting captured
handle_meeting_ended_for_previous(b, p) ==
    [b EXCEPT !.qos_threads = Append(@, <<b.ms.previous_meeting_uuid,
                                          b.ms.previous_meeting_id>>)]

\* handle_meeting_ended: the collect_qos thread it starts for the uuid and id
\* of payload.object
handle_meeting_ended(b, p) ==
    [b EXCEPT !.qos_threads = Append(@, <<p.meeting_uuid, p.meeting_id>>)]

\* the try block of webhook: the branch taken for the event name
route(b, event, p, date, bq_ok) ==
    IF event = "meeting.participant_joined" THEN handle_participant_joined(b, p, date, bq_ok)
    ELSE IF event = "meeting.participant_left" THEN handle_participant_left(b, p, date, bq_ok)
    ELSE IF event = "meeting.participant_joined_breakout_room"
         THEN handle_breakout_room_join(b, p, date, bq_ok)
    ELSE IF event = "meeting.participant_left_breakout_room"
         THEN handle_breakout_room_leave(b, p, date, bq_ok)
    ELSE IF event = "meeting.participant_video_on"
         THEN handle_camera_event(b, p, TRUE, date, bq_ok)
    ELSE IF event = "meeting.participant_video_off"
         THEN handle_camera_event(b, p, FALSE, date, bq_ok)
    ELSE IF event = "meeting.ended" THEN handle_meeting_ended(b, p)
    ELSE b

\* webhook, method POST
webhook(b, body, date, bq_ok) ==
    IF body.json = "empty" THEN [b EXCEPT !.status = BadRequest]
    \* data.get('event', '') on a value that is not a dict
    ELSE IF body.json # "object" THEN Unhandled(b)
    ELSE IF body.event = "endpoint.url_validation"
         \* data.get('payload', {}).get('plainToken', '')
         THEN IF body.payload # "object" THEN Unhandled(b) ELSE b
    \* inside try: payload.get('object', {}) in extract_participant_data raises
    \* before the handler did anything, and the except clause answers 200
    ELSE IF body.event \in RoutedEvents /\ body.payload # "object" THEN b
    ELSE route(b, body.event, body.p, date, bq_ok)

MaxHookSteps == 2

HookBodies ==
    [json : {"empty", "object", "array"},
     event : RoutedEvents \cup {"endpoint.url_validation", "meeting.started"},
     payload : {"object", "null"},
     p : {Event(Jane, "M1", "u1", r, 0) : r \in {<< >>, U_abc}}
             \cup {Event(Jane, "M2", "u2", << >>, 0), Event(Jane, "", "", U_abc, 0)}]

Webhook ==
    /\ steps < MaxHookSteps
    /\ \E body \in HookBodies, bq_ok \in BOOLEAN :
          Done("webhook", body, webhook(Before, body, today, bq_ok))

SpecHook == Init /\ [][Webhook]_vars

-----------------------------------------------------------------------------
(* Room joins of participants with different names while a "Move Myself"    *)
(* calibration names a target participant.                                  *)

MaxAttrSteps == 3

JaneDoe == <<"J","a","n","e"," ","D","o","e">>

\* display names: the target in another case with blanks around it, a part
\* of it, a longer name that contains it, one that shares its first word
\* only, an unrelated one, and the bot's
AttrNames ==
    {<<" ","j","a","n","e"," ","d","o","e"," ">>,
     <<"D","o","e">>,
     <<"M","s"," ","J","a","n","e"," ","D","o","e">>,
     <<"J","a","n","e"," ","R","o","e">>,
     <<"A","n","n">>,
     SCOUT_BOT_NAME}

AttrEvents ==
    {Event([participant_id |-> "p-1", participant_name |-> n, participant_email |-> << >>],
           "M1", "u1", U_abc, 0) : n \in AttrNames}

AttrStartRequests ==
    {[meeting_id |-> "M1", meeting_uuid |-> "u1", calibration_mode |-> mode,
      calibration_participant_name |-> target, calibration_participant_uuid |-> << >>] :
        mode \in {"scout_bot", "self"}, target \in {<< >>, JaneDoe}}

AttrStart ==
    /\ steps < MaxAttrSteps
    /\ \E req \in AttrStartRequests :
          Done("calibration_start", req, calibration_start(Before, req, today, TRUE))

AttrComplete ==
    /\ steps < MaxAttrSteps
    /\ \E req \in CalCompleteRequests :
          Done("calibration_complete", req, calibration_complete(Before, req, today))

AttrRoomJoin ==
    /\ steps < MaxAttrSteps
    /\ \E p \in AttrEvents :
          Done("breakout_room_joined", p, handle_breakout_room_join(Before, p, today, TRUE))

AttrNext ==
    \/ AttrStart
    \/ AttrComplete
    \/ AttrRoomJoin

SpecAttr == Init /\ [][AttrNext]_vars

-----------------------------------------------------------------------------
(* The background collections.  Every thread in qos_threads sleeps, then    *)
(* asks the global zoom_api for a token (ZoomAPI.get_access_token, called   *)
(* from get_past_meeting_participants), requests the participant report and *)
(* inserts its rows.  A thread is a sequence of steps, one for each read or *)
(* write of zoom_api, interleaved with the other threads and with requests. *)
(* The clock does not advance while the threads run: now is 0.              *)

MaxEnded == 2

MaxUnauthorized == 1

TokenLifetime == 3600

TokenMargin == 60

\* sets the position of thread t
At(t, pc) == [qos_tasks EXCEPT ![t].pc = pc]

\* a meeting.ended webhook
QosEnded ==
    /\ steps < MaxEnded
    /\ \E body \in HookBodies :
          /\ body.json = "object" /\ body.payload = "object" /\ body.event = "meeting.ended"
          /\ body.p.room_uuid = << >>
          /\ Done("webhook", body, webhook(Before, body, today, TRUE))

\* time.sleep(30) returns in a thread
QosWake ==
    /\ \E t \in (1..Len(qos_threads)) \ DOMAIN qos_tasks :
          qos_tasks' = [u \in DOMAIN qos_tasks \cup {t} |->
                           IF u = t THEN [pc |-> "get_access_token", token |-> None,
                                          refused |-> 0]
                           ELSE qos_tasks[u]]
    /\ UNCHANGED <<meeting_state, today, bq_mappings, qos_threads, out, steps, zoom_api, bq_qos, room_mapper, fetch, joins, auto_start>>

\* get_access_token: the test of the cached token
QosReadCache ==
    /\ \E t \in DOMAIN qos_tasks :
          /\ qos_tasks[t].pc = "get_access_token"
          /\ qos_tasks' = At(t, IF zoom_api.access_token # None
                                   /\ 0 < zoom_api.token_expires - TokenMargin
                                THEN "return" ELSE "store_token")
    /\ UNCHANGED <<meeting_state, today, bq_mappings, qos_threads, out, steps, zoom_api, bq_qos, room_mapper, fetch, joins, auto_start>>

\* get_access_token: self.access_token = data['access_token'], the token
\* the request of thread t obtained
QosStoreToken ==
    /\ \E t \in DOMAIN qos_tasks :
          /\ qos_tasks[t].pc = "store_token"
          /\ zoom_api' = [zoom_api EXCEPT !.access_token = Some(t)]
          /\ qos_tasks' = At(t, "store_expires")
    /\ UNCHANGED <<meeting_state, today, bq_mappings, qos_threads, out, steps, bq_qos, room_mapper, fetch, joins, auto_start>>

\* get_access_token: self.token_expires = now + data.get('expires_in', 3600)
QosStoreExpires ==
    /\ \E t \in DOMAIN qos_tasks :
          /\ qos_tasks[t].pc = "store_expires"
          /\ zoom_api' = [zoom_api EXCEPT !.token_expires = 0 + TokenLifetime]
          /\ qos_tasks' = At(t, "return")
    /\ UNCHANGED <<meeting_state, today, bq_mappings, qos_threads, out, steps, bq_qos, room_mapper, fetch, joins, auto_start>>

\* get_access_token: return self.access_token
QosReturn ==
    /\ \E t \in DOMAIN qos_tasks :
          /\ qos_tasks[t].pc = "return"
          /\ qos_tasks' = [qos_tasks EXCEPT ![t].pc = "request",
                                            ![t].token = zoom_api.access_token]
    /\ UNCHANGED <<meeting_state, today, bq_mappings, qos_threads, out, steps, zoom_api, bq_qos, room_mapper, fetch, joins, auto_start>>

\* get_past_meeting_participants: the report request is answered with 401
\* and the thread clears self.access_token
QosUnauthorized ==
    /\ \E t \in DOMAIN qos_tasks :
          /\ qos_tasks[t].pc = "request"
          /\ qos_tasks[t].refused < MaxUnauthorized
          /\ zoom_api' = [zoom_api EXCEPT !.access_token = None]
          /\ qos_tasks' = [qos_tasks EXCEPT ![t].pc = "clear_expires",
                                            ![t].refused = @ + 1]
    /\ UNCHANGED <<meeting_state, today, bq_mappings, qos_threads, out, steps, bq_qos, room_mapper, fetch, joins, auto_start>>

\* get_past_meeting_participants after a 401: self.token_expires = 0, then
\* get_access_token again
QosClearExpires ==
    /\ \E t \in DOMAIN qos_tasks :
          /\ qos_tasks[t].pc = "clear_expires"
          /\ zoom_api' = [zoom_api EXCEPT !.token_expires = 0]
          /\ qos_tasks' = At(t, "get_access_token")
    /\ UNCHANGED <<meeting_state, today, bq_mappings, qos_threads, out, steps, bq_qos, room_mapper, fetch, joins, auto_start>>

\* the report request is answered with 200 and the thread inserts its rows
\* (insert_qos_data)
QosInsert ==
    /\ \E t \in DOMAIN qos_tasks :
          /\ qos_tasks[t].pc = "request"
          /\ bq_qos' = Append(bq_qos, qos_threads[t])
          /\ qos_tasks' = At(t, "done")
    /\ UNCHANGED <<meeting_state, today, bq_mappings, qos_threads, out, steps, zoom_api, room_mapper, fetch, joins, auto_start>>

QosNext ==
    \/ QosEnded
    \/ QosWake
    \/ QosReadCache
    \/ QosStoreToken
    \/ QosStoreExpires
    \/ QosReturn
    \/ QosUnauthorized
    \/ QosClearExpires
    \/ QosInsert

SpecQos == Init /\ [][QosNext]_vars

-----------------------------------------------------------------------------
(* The room mapper's two entry points, called in any order.                 *)

MaxMapperSteps == 5

\* what api_get_breakout_rooms does: it raises, or returns no room, two
\* rooms or three
ApiResults ==
    {[ok |-> FALSE, rooms |-> << >>],
     [ok |-> TRUE, rooms |-> << >>],
     [ok |-> TRUE, rooms |-> <<[id |-> "0", name |-> RoomA], [id |-> "1", name |-> RoomB]>>],
     [ok |-> TRUE, rooms |-> <<[id |-> "0", name |-> RoomA], [id |-> "1", name |-> RoomB],
                               [id |-> "2", name |-> RoomC]>>]}

MapperStart ==
    /\ steps < MaxMapperSteps
    /\ \E api \in ApiResults :
          /\ room_mapper' = start_mapping(room_mapper, "M1", "sequential", api)
          /\ out' = [kind |-> "start_mapping", args |-> api, returned |-> None]
    /\ steps' = steps + 1
    /\ UNCHANGED <<meeting_state, today, bq_mappings, qos_threads, zoom_api, qos_tasks, bq_qos,
                   fetch, joins, auto_start>>

MapperScout ==
    /\ steps < MaxMapperSteps
    /\ \E room_uuid \in {U_abc, U_ABC, U_long}, meeting_uuid \in {"", "u1"}, bq_ok \in BOOLEAN :
          LET r == scout_entered_room(room_mapper, bq_mappings, room_uuid, meeting_uuid,
                                      today, bq_ok)
          IN /\ room_mapper' = r.rm
             /\ bq_mappings' = r.table
             /\ out' = [kind |-> "scout_entered_room",
                        args |-> [room_uuid |-> room_uuid, meeting_uuid |-> meeting_uuid],
                        returned |-> r.returned]
    /\ steps' = steps + 1
    /\ UNCHANGED <<meeting_state, today, qos_threads, zoom_api, qos_tasks, bq_qos,
                   fetch, joins, auto_start>>

MapperNext ==
    \/ MapperStart
    \/ MapperScout

SpecMapper == Init /\ [][MapperNext]_vars

-----------------------------------------------------------------------------
(* A calibration interrupted by restarts of the process: the module is      *)
(* loaded again (meeting_state = MeetingState()) and the first request runs *)
(* init_meeting_state before it is handled.                                 *)

Restart ==
    /\ steps < MaxCalSteps
    /\ \E bq_ok \in BOOLEAN :
          /\ meeting_state' = load_mappings_from_bigquery(NewMeetingState, bq_mappings,
                                                          today, bq_ok)
          /\ out' = [kind |-> "restart", args |-> [bq_ok |-> bq_ok], status |-> 200,
                     handed |-> None, at_insert |-> None, stored |-> None]
    /\ steps' = steps + 1
    /\ UNCHANGED <<today, bq_mappings, qos_threads, zoom_api, qos_tasks, bq_qos, room_mapper, fetch, joins, auto_start>>

RecNext ==
    \/ CalNext
    \/ Restart

SpecRec == Init /\ [][RecNext]_vars

-----------------------------------------------------------------------------
(* Main joins, which move the context from one meeting to the next, and     *)
(* meeting.ended webhooks.                                                  *)

EndNext ==
    \/ ParticipantJoined
    \/ QosEnded

SpecEnd == Init /\ [][EndNext]_vars

-----------------------------------------------------------------------------
(* ZoomAPI.get_past_meeting_participants for a meeting uuid without '/',    *)
(* '+' or '=': the loop over url_patterns and, inside it, the page loop.    *)
(* One step is one requests.get and what the code does with the response.   *)
(* fetch.requests counts the requests made to the current URL pattern.      *)

max_pages == 50

MaxRequests == 51

url_patterns == <<"past_meetings (double-encoded)", "past_meetings (raw)", "report API">>

\* what follows the page loop: the collected participants are returned, or
\* the next URL pattern is tried, or [] is returned; pc names the return
\* statement that ended the call
after_page_loop(f) ==
    IF f.all_participants THEN [f EXCEPT !.pc = "returned after the loop"]
    ELSE IF f.url < Len(url_patterns)
    THEN [f EXCEPT !.url = @ + 1, !.page_count = 0, !.requests = 0]
    ELSE [f EXCEPT !.pc = "returned []"]

Requesting ==
    /\ fetch.pc = "page_loop"
    /\ fetch.page_count < max_pages
    /\ fetch.requests < MaxRequests

\* get_access_token and the list of URL patterns
FetchStart ==
    /\ fetch.pc = "idle"
    /\ fetch' = [fetch EXCEPT !.pc = "page_loop"]
    /\ zoom_api' = [access_token |-> Some(0), token_expires |-> 0 + TokenLifetime]
    /\ UNCHANGED <<meeting_state, today, bq_mappings, qos_threads, out, steps, qos_tasks, bq_qos,
                   room_mapper, joins, auto_start>>

\* 200 with participants and a next_page_token
FetchPage ==
    /\ Requesting
    /\ fetch' = [fetch EXCEPT !.requests = @ + 1, !.page_count = @ + 1,
                              !.all_participants = TRUE]
    /\ UNCHANGED <<meeting_state, today, bq_mappings, qos_threads, out, steps, zoom_api, qos_tasks,
                   bq_qos, room_mapper, joins, auto_start>>

\* 200 with participants and no next_page_token: return all_participants
FetchLastPage ==
    /\ Requesting
    /\ fetch' = [fetch EXCEPT !.requests = @ + 1, !.page_count = @ + 1,
                              !.all_participants = TRUE, !.pc = "returned the last page"]
    /\ UNCHANGED <<meeting_state, today, bq_mappings, qos_threads, out, steps, zoom_api, qos_tasks,
                   bq_qos, room_mapper, joins, auto_start>>

\* 200 without participants, 404, 400 or another status: break
FetchBreak ==
    /\ Requesting
    /\ fetch' = after_page_loop([fetch EXCEPT !.requests = @ + 1])
    /\ UNCHANGED <<meeting_state, today, bq_mappings, qos_threads, out, steps, zoom_api, qos_tasks,
                   bq_qos, room_mapper, joins, auto_start>>

\* 401: the token is cleared and fetched again, and "continue" retries the
\* same page
FetchUnauthorized ==
    /\ Requesting
    /\ fetch' = [fetch EXCEPT !.requests = @ + 1]
    /\ zoom_api' = [access_token |-> Some(0), token_expires |-> 0 + TokenLifetime]
    /\ UNCHANGED <<meeting_state, today, bq_mappings, qos_threads, out, steps, qos_tasks, bq_qos,
                   room_mapper, joins, auto_start>>

\* "while page_count < max_pages" ends the loop
FetchPagesExhausted ==
    /\ fetch.pc = "page_loop"
    /\ fetch.page_count >= max_pages
    /\ fetch' = after_page_loop(fetch)
    /\ UNCHANGED <<meeting_state, today, bq_mappings, qos_threads, out, steps, zoom_api, qos_tasks,
                   bq_qos, room_mapper, joins, auto_start>>

FetchNext ==
    \/ FetchStart
    \/ FetchPage
    \/ FetchLastPage
    \/ FetchBreak
    \/ FetchUnauthorized
    \/ FetchPagesExhausted

SpecFetch == Init /\ [][FetchNext]_vars

-----------------------------------------------------------------------------
(* Room joins of the calibration actor handled by two threads at once.  A   *)
(* handler is two steps: from its entry to the end of the scan of           *)
(* pending_room_moves (with the fallback), and the rest, which marks the    *)
(* move it found, binds the identifier and inserts the row.  joins[h] keeps *)
(* the locals of handler h: matched_move as the position k of the move in   *)
(* the queue (0 for None) and room_name.                                    *)

MaxJoins == 2
MaxRaceDeclares == 1

\* handle_breakout_room_join from "if room_name and room_uuid" on, for the
\* move and the room name the scan left in matched_move and room_name
bind_scanned(b, p, k, room_name, date, bq_ok) ==
    LET marked == IF k # 0
                  THEN [b.ms EXCEPT !.pending_room_moves[k].matched = TRUE,
                                    !.pending_room_moves[k].webhook_uuid = p.room_uuid]
                  ELSE b.ms
    IN IF room_name # << >> /\ p.room_uuid # << >>
       THEN [b EXCEPT !.ms = add_webhook_room_mapping(marked, p.room_uuid, room_name),
                      !.bq_mappings = insert_room_mappings(b.bq_mappings,
                          <<webhook_mapping_row(p, p.room_uuid, room_name, date)>>, bq_ok)]
       ELSE b

\* a handler runs up to the end of its scan
JoinScan ==
    /\ Len(joins) < MaxJoins
    /\ \E p \in CalActorEvents :
          LET b1 == with_set_meeting(Before, p.meeting_id, p.meeting_uuid, today, TRUE)
              moves == b1.ms.pending_room_moves
              k == first_unmatched(moves)
          IN /\ is_calibration_participant(b1.ms, p.participant_name, p.participant_email)
             /\ meeting_state' = b1.ms
             /\ bq_mappings' = b1.bq_mappings
             /\ qos_threads' = b1.qos_threads
             /\ joins' = Append(joins, [p |-> p, pc |-> "scanned", k |-> k,
                                        room_name |-> IF k # 0 /\ moves[k].room_name # << >>
                                                      THEN moves[k].room_name
                                                      ELSE b1.ms.scout_bot_current_room])
    /\ UNCHANGED <<today, out, steps, zoom_api, qos_tasks, bq_qos, room_mapper, fetch, auto_start>>

\* a handler that has scanned runs to its end
JoinBind ==
    /\ \E h \in 1..Len(joins), bq_ok \in BOOLEAN :
          LET r == bind_scanned(Before, joins[h].p, joins[h].k, joins[h].room_name, today, bq_ok)
          IN /\ joins[h].pc = "scanned"
             /\ meeting_state' = r.ms
             /\ bq_mappings' = r.bq_mappings
             /\ joins' = [joins EXCEPT ![h].pc = "done"]
             /\ out' = [kind |-> "breakout_room_joined", args |-> joins[h].p, status |-> 200,
                        handed |-> None, at_insert |-> None, stored |-> None]
    /\ UNCHANGED <<today, qos_threads, steps, zoom_api, qos_tasks, bq_qos, room_mapper, fetch,
                   auto_start>>

\* the declarations the two handlers race over
RaceDeclare ==
    /\ steps < MaxRaceDeclares
    /\ CalDeclare

RaceNext ==
    \/ RaceDeclare
    \/ JoinScan
    \/ JoinBind

SpecRace == Init /\ [][RaceNext]_vars

-----------------------------------------------------------------------------
(* The delayed auto-start of the room mapper.  A main join of the scout bot *)
(* starts a thread that sleeps, reads mapping_in_progress and then calls    *)
(* start_mapping; the threads run beside the requests of SpecMapper.        *)
(* auto_start[h] is thread h: the meeting id it was started for and where   *)
(* it is.                                                                   *)

MaxAutoStarts == 2

\* zoom_webhook on meeting.participant_joined of the scout bot, as far as the
\* room mapper is concerned
AutoSpawn ==
    /\ Len(auto_start) < MaxAutoStarts
    /\ \E meeting_id \in {"", "M1"} :
          /\ auto_start' = IF meeting_id # "" /\ ~room_mapper.mapping_in_progress
                           THEN Append(auto_start, [meeting_id |-> meeting_id, pc |-> "sleeping"])
                           ELSE auto_start
          /\ out' = [kind |-> "scout_joined", args |-> [meeting_id |-> meeting_id],
                     returned |-> None]
    /\ UNCHANGED <<meeting_state, today, bq_mappings, qos_threads, steps, zoom_api, qos_tasks,
                   bq_qos, room_mapper, fetch, joins>>

\* auto_start_mapping: the sleep ends and mapping_in_progress is read
AutoCheck ==
    /\ \E h \in 1..Len(auto_start) :
          /\ auto_start[h].pc = "sleeping"
          /\ auto_start' = [auto_start EXCEPT ![h].pc = IF room_mapper.mapping_in_progress
                                                       THEN "skipped" ELSE "checked"]
    /\ UNCHANGED <<meeting_state, today, bq_mappings, qos_threads, out, steps, zoom_api,
                   qos_tasks, bq_qos, room_mapper, fetch, joins>>

\* auto_start_mapping: the call of start_mapping after the check
AutoInvoke ==
    /\ \E h \in 1..Len(auto_start), api \in ApiResults :
          /\ auto_start[h].pc = "checked"
          /\ room_mapper' = start_mapping(room_mapper, auto_start[h].meeting_id,
                                          "sequential", api)
          /\ auto_start' = [auto_start EXCEPT ![h].pc = "started"]
          /\ out' = [kind |-> "auto_start_mapping", args |-> api, returned |-> None]
    /\ UNCHANGED <<meeting_state, today, bq_mappings, qos_threads, steps, zoom_api, qos_tasks,
                   bq_qos, fetch, joins>>

AutoNext ==
    \/ AutoSpawn
    \/ AutoCheck
    \/ AutoInvoke
    \/ MapperStart
    \/ MapperScout

SpecAuto == Init /\ [][AutoNext]_vars

-----------------------------------------------------------------------------
(* Properties.                                                              *)

EventKinds ==
    {"participant_joined", "participant_left", "breakout_room_joined",
     "breakout_room_left", "camera_on", "camera_off"}

\* the current meeting is set and is today's
InMeeting ==
    /\ meeting_state.meeting_id # ""
    /\ meeting_state.meeting_date = Some(today)

\* the attribution rule as C7 words it
AttributedToActor(participant_name, participant_email) ==
    \/ participant_email # << >> /\ Lower(participant_email) = Lower(SCOUT_BOT_EMAIL)
    \/ Contains(Lower(SCOUT_BOT_NAME), Lower(participant_name))

\* the request of this step is a room join of the actor, with a session
\* identifier, in the current meeting (so that the join resets nothing)
ActorRoomJoinStep ==
    /\ out'.kind = "breakout_room_joined"
    /\ AttributedToActor(out'.args.participant_name, out'.args.participant_email)
    /\ out'.args.room_uuid # << >>
    /\ out'.args.meeting_id = meeting_state.meeting_id
    /\ InMeeting

OpenMoves == {i \in 1..Len(meeting_state.pending_room_moves) :
                 ~meeting_state.pending_room_moves[i].matched}

\* the last request was a room join of a participant who is not the actor
RegularRoomJoin ==
    /\ out.kind = "breakout_room_joined"
    /\ out.args.meeting_id # ""
    /\ ~is_calibration_participant(meeting_state, out.args.participant_name,
                                   out.args.participant_email)

C1_Step ==
    LET moves == meeting_state.pending_room_moves
        U == out'.args.room_uuid
    IN (ActorRoomJoinStep /\ OpenMoves # {}) =>
          \E k \in OpenMoves :
             /\ \A j \in OpenMoves : k <= j
             /\ meeting_state'.pending_room_moves =
                   [moves EXCEPT ![k].matched = TRUE, ![k].webhook_uuid = U]
             /\ U \in DOMAIN meeting_state'.uuid_to_name
             /\ meeting_state'.uuid_to_name[U] = moves[k].room_name
             /\ get_room_name(meeting_state', U) = moves[k].room_name
             /\ \A x \in DOMAIN meeting_state.uuid_to_name \ {U} :
                   /\ x \in DOMAIN meeting_state'.uuid_to_name
                   /\ meeting_state'.uuid_to_name[x] = meeting_state.uuid_to_name[x]

\* C1 (FIFO correlation): a room join of the actor with a non-empty session
\* identifier U, arriving while declared moves are unmatched, is correlated
\* with the oldest unmatched move: that move and no other is marked matched
\* with U, U resolves to its room name, and every binding of another
\* identifier is kept; so with moves R1, R2, R3 declared and joins U1, U2, U3
\* (distinct) following, Uk resolves to Rk and all three are matched.
C1_OldestUnmatchedFirst == [][C1_Step]_vars

\* three declared moves, matched in order by three distinct identifiers,
\* each of which resolves to the room of its move
C1_Witness ==
    LET moves == meeting_state.pending_room_moves
    IN /\ Len(moves) = 3
       /\ <<moves[1].room_name, moves[2].room_name, moves[3].room_name>>
             = <<RoomA, RoomB, RoomC>>
       /\ \A k \in 1..3 :
             /\ moves[k].matched
             /\ moves[k].webhook_uuid # None
             /\ get_room_name(meeting_state, moves[k].webhook_uuid) = moves[k].room_name
       /\ Cardinality({moves[k].webhook_uuid : k \in 1..3}) = 3

\* C2 (end-to-end calibration): after start, declare_move("Room A",
\* "api-id-1") and one room join of the actor with "{abc-123}", both
\* "abc-123" and "{abc-123}" resolve to "Room A" and the move is matched.
C2_BareAndBracedResolve ==
    LET moves == meeting_state.pending_room_moves
    IN (/\ steps = 3
        /\ out.kind = "breakout_room_joined"
        /\ AttributedToActor(out.args.participant_name, out.args.participant_email)
        /\ out.args.room_uuid = U_abc
        /\ meeting_state.calibration_in_progress
        /\ Len(moves) = 1
        /\ moves[1].room_name = RoomA
        /\ moves[1].sdk_uuid = U_api)
       => /\ moves[1].matched
          /\ get_room_name(meeting_state, U_abc) = RoomA
          /\ get_room_name(meeting_state, U_abc_bare) = RoomA

\* C3 (regular room join): a room join of a regular participant whose
\* session identifier is bound hands over an event that carries the bound
\* room name, persists that name when the insert succeeds, and leaves the
\* participant's current room at that name.
C3_BoundRoomJoin ==
    (RegularRoomJoin /\ out.args.room_uuid \in DOMAIN meeting_state.uuid_to_name) =>
        LET name == meeting_state.uuid_to_name[out.args.room_uuid]
            pid == out.args.participant_id
        IN /\ out.handed # None
           /\ out.handed[1].room_uuid = out.args.room_uuid
           /\ out.handed[1].room_name = name
           /\ out.stored # None => out.stored[1].room_name = name
           /\ pid \in DOMAIN meeting_state.participant_states
           /\ meeting_state.participant_states[pid].current_room = name

\* after a calibration in which the actor's join bound "{abc-123}" to
\* "Room A" has completed, Jane joins "{abc-123}" and the row is persisted
C3_Witness ==
    /\ RegularRoomJoin
    /\ out.args.participant_id = Jane.participant_id
    /\ out.args.room_uuid = U_abc
    /\ meeting_state.calibration_complete
    /\ ~meeting_state.calibration_in_progress
    /\ Len(meeting_state.pending_room_moves) = 1
    /\ meeting_state.pending_room_moves[1].webhook_uuid = U_abc
    /\ out.stored # None
    /\ out.stored[1].room_name = RoomA

\* C4 (reset boundary): in every reachable state of a meeting A, set_meeting
\* with another id B on the same date leaves no participant state, no
\* identifier binding, no pending move, no last-declared room and no
\* calibration flag, and no identifier bound under A resolves any more.
C4_ResetBoundary ==
    InMeeting =>
        \A B \in MeetingIds \ {meeting_state.meeting_id}, u \in MeetingUuids \cup {""} :
            LET after == set_meeting(meeting_state, B, u, today)
            IN /\ after.meeting_id = B
               /\ after.participant_states = EmptyMap
               /\ after.uuid_to_name = EmptyMap
               /\ after.name_to_uuid = EmptyMap
               /\ after.pending_room_moves = << >>
               /\ after.scout_bot_current_room = None
               /\ ~after.calibration_in_progress
               /\ ~after.calibration_complete
               /\ \A x \in DOMAIN meeting_state.uuid_to_name :
                      get_room_name(after, x) = None

\* a meeting with bindings, a tracked participant, a pending move and a
\* calibration in progress: the state the reset has to clear
C4_Witness ==
    /\ InMeeting
    /\ meeting_state.uuid_to_name # EmptyMap
    /\ meeting_state.participant_states # EmptyMap
    /\ meeting_state.pending_room_moves # << >>
    /\ meeting_state.scout_bot_current_room # None
    /\ meeting_state.calibration_in_progress

\* C5 (same-meeting idempotence): in every reachable state of a meeting,
\* set_meeting with the current id on the same date changes nothing but a
\* previously unknown meeting_uuid, starts no collection and invalidates no
\* persisted mapping.
C5_SameMeetingIdempotent ==
    InMeeting =>
        \A u \in MeetingUuids \cup {""} :
            /\ set_meeting(meeting_state, meeting_state.meeting_id, u, today)
                  = [meeting_state EXCEPT !.meeting_uuid =
                        IF meeting_state.meeting_uuid = "" THEN u
                        ELSE meeting_state.meeting_uuid]
            /\ qos_after_set_meeting(qos_threads, meeting_state, meeting_state.meeting_id,
                                     u, today) = qos_threads
            /\ mappings_after_set_meeting(bq_mappings, meeting_state,
                                          meeting_state.meeting_id, today, TRUE) = bq_mappings

\* a meeting whose uuid is known, with state that a reset would lose and a
\* persisted mapping that an invalidation would delete
C5_Witness ==
    /\ InMeeting
    /\ meeting_state.meeting_uuid = "u1"
    /\ meeting_state.uuid_to_name # EmptyMap
    /\ meeting_state.participant_states # EmptyMap
    /\ bq_mappings # << >>

C6_Step ==
    LET U == out'.args.room_uuid
        R == meeting_state.scout_bot_current_room
    IN (ActorRoomJoinStep /\ OpenMoves = {} /\ R # None) =>
          /\ meeting_state'.pending_room_moves = meeting_state.pending_room_moves
          /\ U \in DOMAIN meeting_state'.uuid_to_name
          /\ meeting_state'.uuid_to_name[U] = R
          /\ get_room_name(meeting_state', U) = R

\* C6 (fallback correlation): a room join of the actor with a non-empty
\* session identifier, arriving while no declared move is unmatched and the
\* last declared room is R, binds the identifier to R and changes no move.
C6_FallbackToLastDeclared == [][C6_Step]_vars

\* the only move was matched by "{abc-123}"; the next join of the actor,
\* with "abc-12345", was bound to the last declared room
C6_Witness ==
    /\ out.kind = "breakout_room_joined"
    /\ AttributedToActor(out.args.participant_name, out.args.participant_email)
    /\ out.args.room_uuid = U_long
    /\ Len(meeting_state.pending_room_moves) = 1
    /\ meeting_state.pending_room_moves[1].matched
    /\ meeting_state.pending_room_moves[1].webhook_uuid = U_abc
    /\ meeting_state.scout_bot_current_room = RoomA
    /\ get_room_name(meeting_state, U_long) = RoomA

\* C7 (calibration-actor exclusion): a webhook event of any type whose
\* participant matches the bot e-mail (case-insensitively) or carries the bot
\* name as a substring hands nothing to the attendance or camera tables.
C7_ActorNeverPersisted ==
    (/\ out.kind \in EventKinds
     /\ AttributedToActor(out.args.participant_name, out.args.participant_email))
        => out.handed = None /\ out.stored = None

\* a camera-off event of the participant matched by e-mail only, after the
\* calibration completed
C7_Witness ==
    /\ out.kind = "camera_off"
    /\ out.args.meeting_id # ""
    /\ out.args.participant_email = BotByEmail.participant_email
    /\ meeting_state.calibration_complete
    /\ out.handed = None

C8_Step ==
    LET p == out'.args
        states == meeting_state.participant_states
    IN (/\ out'.kind = "camera_off"
        /\ out'.stored # None
        /\ p.participant_id \in DOMAIN states
        /\ states[p.participant_id].camera_on_since # None) =>
          LET t == states[p.participant_id].camera_on_since[1]
              diff == p.event_dt - t
              persisted == out'.stored[1].duration_seconds
          IN /\ (0 <= diff /\ diff <= 86400 * 1000) => persisted = Some(diff \div 1000)
             /\ diff < 0 => persisted = Some(0)
             /\ diff > 86400 * 1000 => persisted = None

\* C8 (camera duration clamp): the duration persisted with a camera-off
\* event of a participant whose camera has been on since t is
\* event_time - t (in whole seconds) when that is within 0..86400, is 0 when
\* event_time < t, and is absent when the difference exceeds 24 hours.
C8_PersistedDurationClamp == [][C8_Step]_vars

\* the name the spec gives to a room whose identifier resolves to nothing
SynthesizedName(room_uuid) ==
    <<"R", "o", "o", "m", "-">> \o
        [i \in 1..(IF Len(room_uuid) < 8 THEN Len(room_uuid) ELSE 8) |-> room_uuid[i]]

C10_BoundVariantResolves ==
    out.kind \in {"add_room_mapping", "add_webhook_room_mapping"} =>
        /\ get_room_name(meeting_state, out.args.x) = out.args.room_name
        /\ get_room_name(meeting_state, StripBraces(out.args.x)) = out.args.room_name

\* a meeting state just after a transition: nothing of a meeting in it
FreshContext(ms) ==
    /\ ms.participant_states = EmptyMap
    /\ ms.uuid_to_name = EmptyMap
    /\ ms.name_to_uuid = EmptyMap
    /\ ms.pending_room_moves = << >>
    /\ ms.scout_bot_current_room = None
    /\ ~ms.calibration_in_progress
    /\ ~ms.calibration_complete
    /\ ms.calibrated_at = None

\* C11 (transition rule): in every reachable state, set_meeting resets when
\* the incoming id differs from meeting_id or today differs from
\* meeting_date, and otherwise changes nothing but an unknown meeting_uuid,
\* whatever the incoming meeting_uuid is.
C11_TransitionRule ==
    \A id \in MeetingIds, u \in MeetingUuids \cup {""} :
        LET after == set_meeting(meeting_state, id, u, today)
            differs == \/ id # meeting_state.meeting_id
                       \/ meeting_state.meeting_date # Some(today)
        IN /\ differs =>
                 /\ FreshContext(after)
                 /\ after.meeting_id = id
                 /\ after.meeting_uuid = u
                 /\ after.meeting_date = Some(today)
           /\ ~differs =>
                 /\ [after EXCEPT !.meeting_uuid = meeting_state.meeting_uuid] = meeting_state
                 /\ after.meeting_uuid \in {meeting_state.meeting_uuid, u}
                 /\ meeting_state.meeting_uuid # "" =>
                       after.meeting_uuid = meeting_state.meeting_uuid

\* meeting M1 went over midnight: the same id on the next day made a
\* transition (the previous-meeting reference is M1 itself), and the meeting
\* now has a known uuid and a tracked participant that a further transition
\* would lose
C11_Witness ==
    /\ today = 2
    /\ meeting_state.meeting_id = "M1"
    /\ meeting_state.meeting_date = Some(today)
    /\ meeting_state.previous_meeting_id = "M1"
    /\ meeting_state.meeting_uuid = "u1"
    /\ meeting_state.participant_states # EmptyMap

C12_Step ==
    (/\ out'.kind \in EventKinds
     /\ out'.handed # None
     /\ meeting_state.meeting_id \notin {"", out'.args.meeting_id}) =>
        /\ meeting_state'.meeting_id = out'.args.meeting_id
        /\ meeting_state'.uuid_to_name = EmptyMap
        /\ \A pid \in DOMAIN meeting_state'.participant_states :
              pid = out'.args.participant_id

\* C12 (reset precedes processing): an event of any type that is processed
\* while the context holds another meeting id leaves the context at the
\* event's meeting, with no room binding and no participant state of the
\* previous meeting.
C12_ResetPrecedesProcessing == [][C12_Step]_vars

\* C13 (webhook failure semantics): every POST to /webhook with a non-empty
\* parsed body is answered with HTTP 200.
C13_WebhookAlwaysAcknowledged ==
    (out.kind = "webhook" /\ out.args.json # "empty") => out.status = 200

\* C14 (driver input validation): start without a meeting id, declare-move
\* without a meeting id or with an empty move list, and complete without a
\* meeting id are each answered with a client error.
C14_MalformedDriverCallRejected ==
    /\ (out.kind \in {"calibration_start", "calibration_complete"}
            /\ out.args.meeting_id = "") => out.status = 400
    /\ (out.kind = "calibration_mapping"
            /\ (out.args.meeting_id = "" \/ out.args.room_mapping = << >>)) =>
           out.status = 400

\* the elements of a sequence
Range(seq) == {seq[i] : i \in 1..Len(seq)}

C15_Step ==
    (/\ out'.kind = "breakout_room_joined"
     /\ out'.args.meeting_id # ""
     /\ is_calibration_participant(meeting_state', out'.args.participant_name,
                                   out'.args.participant_email)
     /\ OpenMoves = {}
     /\ meeting_state.scout_bot_current_room = None) =>
        /\ out'.handed = None
        /\ out'.stored = None
        /\ DOMAIN meeting_state'.uuid_to_name \subseteq DOMAIN meeting_state.uuid_to_name
        /\ \A x \in DOMAIN meeting_state'.uuid_to_name :
              meeting_state'.uuid_to_name[x] = meeting_state.uuid_to_name[x]
        /\ meeting_state'.pending_room_moves \in {meeting_state.pending_room_moves, << >>}
        /\ Range(bq_mappings') \subseteq Range(bq_mappings)
        /\ Len(bq_mappings') <= Len(bq_mappings)

\* C15 (no calibration context): a room join of the calibration actor that
\* arrives when no pending move is unmatched and no room was declared last
\* adds no entry to the identifier map, marks no move, persists no
\* room-mapping record and hands over no attendance event.
C15_DroppedWithoutContext == [][C15_Step]_vars

\* a calibration was started, nothing was declared, and the bot's join with
\* "{abc-123}" left the map and the room-mapping table empty
C15_Witness ==
    /\ out.kind = "breakout_room_joined"
    /\ AttributedToActor(out.args.participant_name, out.args.participant_email)
    /\ out.args.room_uuid = U_abc
    /\ out.args.meeting_id = meeting_state.meeting_id
    /\ meeting_state.calibration_in_progress
    /\ meeting_state.scout_bot_current_room = None
    /\ meeting_state.uuid_to_name = EmptyMap
    /\ bq_mappings = << >>

C16_Step ==
    out'.kind = "calibration_complete" =>
        /\ meeting_state'.calibration_complete = out'.args.success
        /\ meeting_state'.calibrated_at # None
        /\ ~meeting_state'.calibration_in_progress
        /\ meeting_state'.uuid_to_name = meeting_state.uuid_to_name
        /\ meeting_state'.name_to_uuid = meeting_state.name_to_uuid
        /\ meeting_state'.pending_room_moves = meeting_state.pending_room_moves
        /\ meeting_state'.participant_states = meeting_state.participant_states
        /\ \A x \in RoomUuids :
              get_room_name(meeting_state', x) = get_room_name(meeting_state, x)
        /\ bq_mappings' = bq_mappings

\* C16 (complete): calibration_complete records the success flag and a
\* completion time and ends the in-progress state; the identifier map, the
\* pending-move queue and the participant states are as before, and every
\* identifier resolves as before.
C16_CompleteKeepsBindings == [][C16_Step]_vars

\* completed with success over a meeting that has a binding, a pending move
\* and a tracked participant
C16_Witness ==
    /\ out.kind = "calibration_complete"
    /\ out.args.success
    /\ meeting_state.calibration_complete
    /\ ~meeting_state.calibration_in_progress
    /\ meeting_state.calibrated_at # None
    /\ get_room_name(meeting_state, U_api) = RoomA
    /\ meeting_state.pending_room_moves # << >>
    /\ meeting_state.participant_states # EmptyMap

\* this step moved the context to another meeting id or another date
Transitioned ==
    \/ meeting_state'.meeting_id # meeting_state.meeting_id
    \/ meeting_state'.meeting_date # meeting_state.meeting_date

C17_Step ==
    /\ ~Transitioned => qos_threads' = qos_threads
    /\ Transitioned =>
          IF /\ meeting_state.meeting_uuid # ""
             /\ meeting_state.meeting_uuid # out'.args.meeting_uuid
          THEN /\ qos_threads' = Append(qos_threads, <<meeting_state.meeting_uuid,
                                                       meeting_state.meeting_id>>)
               /\ meeting_state'.previous_meeting_uuid = meeting_state.meeting_uuid
               /\ meeting_state'.previous_meeting_id = meeting_state.meeting_id
          ELSE /\ qos_threads' = qos_threads
               /\ meeting_state'.previous_meeting_uuid = meeting_state.previous_meeting_uuid
               /\ meeting_state'.previous_meeting_id = meeting_state.previous_meeting_id

\* C17 (trailing metrics): a step that moves the context to another meeting
\* starts one collection, for the uuid and id the context held before, and
\* records them as the previous meeting, exactly when the outgoing uuid was
\* known and differs from the incoming one; no other step starts a
\* collection.
C17_CollectionForOutgoingMeeting == [][C17_Step]_vars

\* the context moved from M1 (u1) to M2: one collection, for (u1, M1)
C17_Witness ==
    /\ meeting_state.meeting_id = "M2"
    /\ meeting_state.meeting_uuid = "u2"
    /\ qos_threads = << <<"u1", "M1">> >>
    /\ meeting_state.previous_meeting_uuid = "u1"
    /\ meeting_state.previous_meeting_id = "M1"

\* C18 (storage failure policy): when the insert of an event fails, nothing
\* of the event is persisted, the request is still answered with 200, and
\* the state the handler leaves is the one it leaves when the insert
\* succeeds: nothing is kept for a later attempt.
C18_FailedInsertIsDropped ==
    /\ (out.kind = "webhook" /\ out.handed # None /\ out.stored = None) => out.status = 200
    /\ \A body \in HookBodies :
          (body.json = "object" /\ body.payload = "object" /\ body.event \in RoutedEvents) =>
              LET ok == webhook(Before, body, today, TRUE)
                  failed == webhook(Before, body, today, FALSE)
              IN /\ failed.status = 200
                 /\ failed.stored = None
                 /\ failed.handed = ok.handed
                 /\ failed.ms = ok.ms
                 /\ failed.qos_threads = ok.qos_threads

\* Jane's room join was handed to the insert, the insert failed, and the
\* webhook was answered with 200
C18_Witness ==
    /\ out.kind = "webhook"
    /\ out.args.event = "meeting.participant_joined_breakout_room"
    /\ out.handed # None
    /\ out.stored = None
    /\ out.status = 200
    /\ "p-jane" \in DOMAIN meeting_state.participant_states

C19_Step ==
    (out'.kind = "calibration_start" /\ out'.args.meeting_id # "") =>
        /\ out'.status = 200
        /\ meeting_state'.meeting_id = out'.args.meeting_id
        /\ meeting_state'.pending_room_moves = << >>
        /\ meeting_state'.calibration_in_progress
        /\ ~meeting_state'.calibration_complete
        /\ meeting_state'.calibration_mode = out'.args.calibration_mode
        /\ meeting_state'.calibration_participant_name =
              out'.args.calibration_participant_name
        /\ meeting_state'.calibration_participant_uuid =
              out'.args.calibration_participant_uuid
        /\ (out'.args.meeting_id = meeting_state.meeting_id /\ InMeeting) =>
              /\ meeting_state'.uuid_to_name = meeting_state.uuid_to_name
              /\ meeting_state'.name_to_uuid = meeting_state.name_to_uuid
              /\ meeting_state'.participant_states = meeting_state.participant_states

\* C19 (start): after an accepted calibration_start the pending-move queue
\* is empty, calibration_in_progress is true, calibration_complete is false
\* and the actor descriptor is the one supplied; a start for the current
\* meeting on the same day leaves bindings and participant states as they
\* were.
C19_StartEntersInProgress == [][C19_Step]_vars

\* a self-mode calibration started on a meeting that already had a binding,
\* a declared move and a tracked participant
C19_Witness ==
    /\ out.kind = "calibration_start"
    /\ out.status = 200
    /\ meeting_state.calibration_mode = "self"
    /\ meeting_state.calibration_participant_name = Jane.participant_name
    /\ meeting_state.calibration_in_progress
    /\ meeting_state.pending_room_moves = << >>
    /\ meeting_state.scout_bot_current_room = RoomA
    /\ get_room_name(meeting_state, U_api) = RoomA
    /\ meeting_state.participant_states # EmptyMap

\* the state get_or_create makes for a participant it does not know
CreatedState ==
    [camera_on |-> FALSE, camera_on_since |-> None, current_room |-> None,
     joined_at |-> None]

C20_Step ==
    (out'.kind \in {"camera_on", "camera_off"} /\ out'.handed # None) =>
        LET pid == out'.args.participant_id
            at == out'.args.event_dt
            on == out'.kind = "camera_on"
            states == meeting_state.participant_states
            pre == IF pid \in DOMAIN states THEN states[pid] ELSE CreatedState
        IN /\ pid \in DOMAIN meeting_state'.participant_states
           /\ LET post == meeting_state'.participant_states[pid]
              IN /\ (on /\ ~pre.camera_on) =>
                       post = [pre EXCEPT !.camera_on = TRUE, !.camera_on_since = Some(at)]
                 /\ (~on /\ pre.camera_on) =>
                       post = [pre EXCEPT !.camera_on = FALSE, !.camera_on_since = None]
                 /\ (on = pre.camera_on) => post = pre
           /\ \A q \in DOMAIN states \ {pid} :
                 /\ q \in DOMAIN meeting_state'.participant_states
                 /\ meeting_state'.participant_states[q] = states[q]

\* C20 (update_camera): a camera event of a participant sets
\* camera_on_since to the event time on a false->true transition, clears it
\* on a true->false transition, and changes nothing when the requested
\* value is the current one; an unknown participant starts from
\* camera_on = false with every timestamp absent.
C20_CameraStateTransitions == [][C20_Step]_vars

\* a second camera-on at 1.5 s left camera_on_since at the first one's time 0
C20_Witness ==
    /\ out.kind = "camera_on"
    /\ out.args.event_dt = 1500
    /\ out.handed # None
    /\ "p-jane" \in DOMAIN meeting_state.participant_states
    /\ meeting_state.participant_states["p-jane"].camera_on
    /\ meeting_state.participant_states["p-jane"].camera_on_since = Some(0)

\* the keys under which the bind paths store an identifier besides itself
StoredVariants(x) ==
    {StripBraces(x), Lower(x), Lower(StripBraces(x)), Prefix(x, 8)}

\* C21 (variant consistency): in every reachable state every stored variant
\* (brace-stripped, lowercased, short-prefix) of a stored identifier maps to
\* the room name the identifier maps to.
C21_VariantsAgree ==
    \A x \in DOMAIN meeting_state.uuid_to_name :
        \A v \in StoredVariants(x) \cap DOMAIN meeting_state.uuid_to_name :
            meeting_state.uuid_to_name[v] = meeting_state.uuid_to_name[x]

C22_Step ==
    (/\ ActorRoomJoinStep
     /\ \E k \in 1..Len(meeting_state.pending_room_moves) :
           /\ meeting_state.pending_room_moves[k].matched
           /\ meeting_state.pending_room_moves[k].webhook_uuid = out'.args.room_uuid) =>
        /\ meeting_state'.pending_room_moves = meeting_state.pending_room_moves
        /\ get_room_name(meeting_state', out'.args.room_uuid)
              = get_room_name(meeting_state, out'.args.room_uuid)

\* C22 (matched identifier is terminal): a room join of the actor with a
\* session identifier that a move is already matched with consumes no
\* further move and leaves the identifier bound to the name it had.
C22_DuplicateJoinIsNoOp == [][C22_Step]_vars

\* the (source, room_uuid) of the persisted room-mapping rows, in order
PersistedBinds == [i \in 1..Len(bq_mappings) |->
                      <<bq_mappings[i].source, bq_mappings[i].room_uuid>>]

\* C23 (race tolerance): with Room A and Room C declared in that order and
\* the actor's joins "{abc-123}" and "abc-123" delivered in that order, the
\* second one before declare_move(Room C) was recorded, "{abc-123}" ends up
\* bound to Room A and "abc-123" to Room C.
C23_JoinBeforeDeclareTolerated ==
    (/\ steps = 4
     /\ PersistedBinds = << <<"zoom_sdk_app", U_api>>, <<"webhook_calibration", U_abc>>,
                            <<"webhook_calibration", U_abc_bare>>, <<"zoom_sdk_app", U_long>> >>) =>
        /\ get_room_name(meeting_state, U_abc) = RoomA
        /\ get_room_name(meeting_state, U_abc_bare) = RoomC

\* the self-mode rule as C24 words it, on lowercased and trimmed names
SelfRule(target, name) ==
    LET t == Strip(Lower(target))
        n == Strip(Lower(name))
    IN /\ n # << >>
       /\ \/ n = t
          \/ Contains(t, n)
          \/ Contains(n, t)
          \/ FirstToken(n) = FirstToken(t)

RegularEvent ==
    /\ out.kind \in EventKinds
    /\ out.args.meeting_id # ""
    /\ ~AttributedToActor(out.args.participant_name, out.args.participant_email)
    /\ out.kind \in {"breakout_room_joined", "breakout_room_left"} =>
          ~is_calibration_participant(meeting_state, out.args.participant_name,
                                      out.args.participant_email)

\* C25 (routing of regular participants): an event of a regular participant
\* that carries a meeting id hands one event of its own type to persistence,
\* whether the insert succeeds or not, and the persistence call is made on
\* the session state the handler leaves behind, that is, after the
\* handler's update of it.
C25_RegularEventRouted ==
    RegularEvent =>
        /\ out.handed # None
        /\ out.handed[1].event_type = out.kind
        /\ out.handed[1].participant_id = out.args.participant_id
        /\ out.at_insert = Some(meeting_state)

\* a regular participant's main join in a new meeting created the
\* participant's state, and the insert that followed it failed
C25_Witness ==
    /\ RegularEvent
    /\ out.kind = "participant_joined"
    /\ out.args.participant_id \in DOMAIN meeting_state.participant_states
    /\ out.handed # None
    /\ out.stored = None
    /\ out.at_insert = Some(meeting_state)

C26_Step ==
    LET body == out'.args
    IN (out'.kind = "webhook" /\ body.json = "object" /\ body.payload = "object"
        /\ body.event = "meeting.ended") =>
           /\ qos_threads' = Append(qos_threads, <<body.p.meeting_uuid, body.p.meeting_id>>)
           /\ meeting_state' = meeting_state
           /\ bq_mappings' = bq_mappings
           /\ out'.handed = None
           /\ out'.status = 200

\* C26 (meeting ended): a meeting.ended webhook starts one background
\* collection, for the uuid and id the event itself names, and changes
\* nothing of the meeting context (identifier map, participant states,
\* calibration state, meeting id and the captured previous references).
C26_MeetingEndedCollectsItsOwnMeeting == [][C26_Step]_vars

\* the context is meeting M1 with Jane in it; the one collection started is
\* the one for the ended meeting M2 / u2 of the last webhook
C26_Witness ==
    /\ out.kind = "webhook"
    /\ out.args.event = "meeting.ended"
    /\ meeting_state.meeting_id = "M1"
    /\ "p-jane" \in DOMAIN meeting_state.participant_states
    /\ qos_threads = << <<"u2", "M2">> >>

\* C27 (background tasks share nothing): a collection thread reads no
\* variable that another thread wrote: the token a thread sends with its
\* report request is the one the thread obtained itself.
C27_TasksShareNothing ==
    \A t \in DOMAIN qos_tasks :
        qos_tasks[t].token # None => qos_tasks[t].token = Some(t)

C28_Step ==
    Transitioned =>
        \A i \in 1..Len(bq_mappings') :
            bq_mappings'[i].mapping_date = today =>
                bq_mappings'[i].meeting_id = meeting_state'.meeting_id

\* C28 (invalidation on transition): a request that moves the context to
\* another meeting leaves no room-mapping row dated today that was written
\* for another meeting than the new one, so that a reload of today's rows
\* returns bindings of the new meeting only.
C28_TransitionInvalidatesPersistedRows == [][C28_Step]_vars

C29_Step ==
    LET u == out'.args.room_uuid
        k == Len(room_mapper.rooms_from_api)
        idx == room_mapper.sequential_index
    IN /\ room_mapper'.sequential_index <= Len(room_mapper'.rooms_from_api)
       /\ out'.kind = "scout_entered_room" =>
             IF u \in DOMAIN room_mapper.uuid_to_name
             THEN /\ out'.returned = room_mapper.uuid_to_name[u]
                  /\ room_mapper'.uuid_to_name = room_mapper.uuid_to_name
                  /\ room_mapper'.sequential_index = idx
             ELSE IF ~room_mapper.mapping_in_progress
             THEN /\ out'.returned = None
                  /\ room_mapper'.uuid_to_name = room_mapper.uuid_to_name
                  /\ room_mapper'.sequential_index = idx
             ELSE /\ idx = Cardinality(DOMAIN room_mapper.uuid_to_name)
                  /\ idx < k
                  /\ room_mapper'.uuid_to_name =
                        Put(room_mapper.uuid_to_name, u, room_mapper.rooms_from_api[idx + 1].name)
                  /\ room_mapper'.sequential_index = idx + 1
                  /\ out'.returned = room_mapper.rooms_from_api[idx + 1].name

\* C29 (sequential room mapping): after start_mapping obtained k rooms, the
\* i-th room identifier seen for the first time is bound to the i-th room
\* name; an identifier that is already mapped returns its name and changes
\* neither the index nor a binding; an identifier seen while no mapping is in
\* progress is bound to nothing; the sequential index never exceeds k.
C29_SequentialMapping == [][C29_Step]_vars

\* three rooms were obtained; '{abc-123}' was bound to Room A, seen again,
\* and then 'abc-12345' was bound to Room B
C29_Witness ==
    /\ out.kind = "scout_entered_room"
    /\ steps = 4
    /\ Len(room_mapper.rooms_from_api) = 3
    /\ room_mapper.sequential_index = 2
    /\ room_mapper.mapping_in_progress
    /\ DOMAIN room_mapper.uuid_to_name = {U_abc, U_long}
    /\ room_mapper.uuid_to_name[U_abc] = RoomA
    /\ room_mapper.uuid_to_name[U_long] = RoomB
    /\ out.args.room_uuid = U_long

C30_Step ==
    (out'.kind = "restart" /\ out'.args.bq_ok /\ InMeeting) =>
        \A x \in RoomUuids :
            get_room_name(meeting_state, x) # None =>
                /\ get_room_name(meeting_state', x) = get_room_name(meeting_state, x)
                /\ ~IsNewMeeting(meeting_state', meeting_state.meeting_id, today)

\* C30 (restart recovery round trip): after a restart in the middle of a
\* meeting and a reload of today's persisted rows that succeeds, every
\* identifier that lookup resolved before the restart resolves to the same
\* room name, and an event of the same meeting is not a new meeting.
C30_RestartRoundTrip == [][C30_Step]_vars

C31_Step ==
    LET moves == meeting_state.pending_room_moves
        after == meeting_state'.pending_room_moves
    IN /\ \A i \in 1..Len(after) :
             /\ after[i].matched => \A j \in 1..i : after[j].matched
             /\ after[i].matched <=> after[i].webhook_uuid # None
       /\ \A i \in 1..Len(moves) :
             moves[i].matched =>
                \/ Len(after) >= i /\ after[i] = moves[i]
                \/ /\ out'.kind = "calibration_start" \/ Transitioned
                   /\ \A j \in 1..Len(after) : ~after[j].matched

\* C31 (matched prefix): the matched moves of pending_room_moves are a
\* prefix of the queue, a move is matched exactly when it carries a session
\* identifier, and a matched move stays as it is until calibration_start or
\* a meeting reset empties the queue.
C31_MatchedPrefix == [][C31_Step]_vars

\* three moves were declared and the actor's first two joins matched the
\* first two of them, the third still being open
C31_Witness ==
    /\ Len(meeting_state.pending_room_moves) = 3
    /\ meeting_state.pending_room_moves[1].matched
    /\ meeting_state.pending_room_moves[2].matched
    /\ meeting_state.pending_room_moves[1].webhook_uuid # meeting_state.pending_room_moves[2].webhook_uuid
    /\ ~meeting_state.pending_room_moves[3].matched

\* C32 (camera state): for every tracked participant camera_on_since is
\* present exactly when camera_on is true.
C32_CameraSinceIffOn ==
    \A id \in DOMAIN meeting_state.participant_states :
        meeting_state.participant_states[id].camera_on <=>
            meeting_state.participant_states[id].camera_on_since # None

\* Jane joined, turned the camera on and off again: her state is tracked
\* with the camera off, no start time, and the room the join gave her
C32_Witness ==
    /\ out.kind = "camera_off"
    /\ out.handed # None
    /\ "p-jane" \in DOMAIN meeting_state.participant_states
    /\ ~meeting_state.participant_states["p-jane"].camera_on
    /\ meeting_state.participant_states["p-jane"].camera_on_since = None
    /\ meeting_state.participant_states["p-jane"].joined_at # None

\* C33 (calibration state): calibration_in_progress and
\* calibration_complete are never both true.
C33_OneCalibrationState ==
    ~(meeting_state.calibration_in_progress /\ meeting_state.calibration_complete)

\* a calibration that was completed with success was started again in the
\* same meeting: it is in progress and no longer complete
C33_Witness ==
    /\ out.kind = "calibration_start"
    /\ meeting_state.calibrated_at # None
    /\ meeting_state.calibration_in_progress
    /\ ~meeting_state.calibration_complete

\* C34 (one collection per meeting): no two of the background collections
\* started are for the same meeting uuid.
C34_OneCollectionPerMeeting ==
    \A i, j \in 1..Len(qos_threads) :
        (i # j /\ qos_threads[i][1] # "") => qos_threads[i][1] # qos_threads[j][1]

C35_Step ==
    LET body == out'.args
    IN (/\ out'.kind = "webhook"
        /\ body.json = "object"
        /\ \/ body.event \notin RoutedEvents \cup {"endpoint.url_validation"}
           \/ /\ body.event \in RoutedEvents \ {"meeting.ended"}
              /\ body.payload = "object"
              /\ body.p.meeting_id = "") =>
           /\ meeting_state' = meeting_state
           /\ bq_mappings' = bq_mappings
           /\ qos_threads' = qos_threads
           /\ out'.handed = None
           /\ out'.stored = None
           /\ out'.status = 200

\* C35 (ignored events): a webhook with an unrecognized event type, and a
\* participant event of a recognized type without a meeting id, change
\* nothing of the meeting context, hand nothing to persistence, start no
\* collection and are answered with 200.
C35_IgnoredEventsChangeNothing == [][C35_Step]_vars

\* Jane is tracked in meeting M1 and the last webhook, a room join of hers
\* without a meeting id, was answered with 200 and persisted nothing
C35_Witness ==
    /\ out.kind = "webhook"
    /\ out.args.json = "object" /\ out.args.payload = "object"
    /\ out.args.event = "meeting.participant_joined_breakout_room"
    /\ out.args.p.meeting_id = ""
    /\ out.status = 200
    /\ out.handed = None
    /\ meeting_state.meeting_id = "M1"
    /\ "p-jane" \in DOMAIN meeting_state.participant_states

\* C36 (termination of the trailing collection): the page loop makes at
\* most max_pages requests to one URL pattern, whatever the upstream answers.
C36_BoundedRequests == fetch.requests <= max_pages

\* C37 (interleaved actor joins): two handlers of actor room joins with
\* different identifiers never take the same pending move.
C37_NoMoveTakenTwice ==
    \A g, h \in 1..Len(joins) :
        (/\ g # h
         /\ joins[g].p.room_uuid # << >> /\ joins[h].p.room_uuid # << >>
         /\ joins[g].p.room_uuid # joins[h].p.room_uuid
         /\ joins[g].k # 0) => joins[g].k # joins[h].k

C38_Step ==
    (/\ out'.kind = "breakout_room_joined"
     /\ steps' # steps
     /\ is_calibration_participant(meeting_state', out'.args.participant_name,
                                   out'.args.participant_email)
     /\ meeting_state.calibration_in_progress
     /\ meeting_state.pending_room_moves = << >>) =>
        /\ meeting_state'.uuid_to_name = meeting_state.uuid_to_name
        /\ bq_mappings' = bq_mappings

\* C38 (fallback across sessions): a room join of the calibration actor that
\* arrives after a calibration was started and before any move of it was
\* declared adds no binding, whatever was declared before the start.
C38_NoBindingBeforeFirstDeclare == [][C38_Step]_vars

C39_Step ==
    LET pid == out'.args.participant_id
        before == meeting_state.participant_states
        after == meeting_state'.participant_states
    IN (/\ out'.kind \in {"breakout_room_left", "participant_left"}
        /\ steps' # steps
        /\ out'.handed # None
        /\ pid \in DOMAIN before
        /\ before[pid].current_room \notin {None, MainRoom}
        /\ out'.kind = "breakout_room_left" =>
              out'.handed[1].room_name = before[pid].current_room) =>
           \/ pid \notin DOMAIN after
           \/ after[pid].current_room # before[pid].current_room

\* C39 (leave events update session state): after a processed room-leave or
\* main-leave event of a regular participant who was in a breakout room, the
\* participant's current_room no longer names the room that was left.
C39_LeaveClearsCurrentRoom == [][C39_Step]_vars

C40_Step ==
    (out'.kind = "auto_start_mapping" /\ auto_start' # auto_start) =>
        ~room_mapper.mapping_in_progress

\* C40 (auto-start guard): a delayed auto-start thread never calls
\* start_mapping while a mapping is in progress.
C40_AutoStartNeverInterrupts == [][C40_Step]_vars

\* what C40 concludes from it: the reset of an auto-start never wipes a
\* binding learned by a mapping in progress
C40_BindingsSurviveAutoStart ==
    [][(out'.kind = "auto_start_mapping" /\ auto_start' # auto_start
            /\ room_mapper.mapping_in_progress) =>
          \A u \in DOMAIN room_mapper.uuid_to_name :
              u \in DOMAIN room_mapper'.uuid_to_name]_vars

=============================================================================
